---- MODULE Spec2Model ----
(***************************************************************************)
(* Model of scripts/main.js of seasons-and-stars-athas: the calendar       *)
(* arithmetic (buildCalendarMeta, getDayOfYear, toAbsoluteDay,             *)
(* fromAbsoluteDay), the King's Age calculation (getYearInfo), the moon    *)
(* phases of the fraction model (getAthasMoonPhases) and of the segment    *)
(* model (computeMoonPhase), the eclipse and conjunction scans             *)
(* (scanEclipsesRange, scanConjunctionsRange, findLandmark), the season    *)
(* lookup (getSeasonName) and the chat commands /doy, /abs, /moons and     *)
(* /eclipse, the latter both as the Chat Commander callback and as the     *)
(* branch of the chatMessage hook.                                         *)
(*                                                                         *)
(* The program is a set of synchronous functions called by the host.  A    *)
(* behaviour is one call: Init fixes what the host provides (the active    *)
(* calendar `cal`, the current date `now`) and the request `req`; the      *)
(* action of the requested operation runs the function as the code does    *)
(* and stores what it returns in `res`.                                    *)
(*                                                                         *)
(* Numbers are JavaScript numbers restricted to the integers the bounds    *)
(* allow, where the IEEE operations the code uses (+, -, *, %, Math.floor  *)
(* of a quotient, comparison of age/cycle with a multiple of 1/8) are      *)
(* exact.  The angles of the conjunction scan and the day counts of the    *)
(* fraction model are not integers: they are computed as doubles, rounded  *)
(* to 53 significant bits after every operation.                           *)
(***************************************************************************)
EXTENDS Integers, Sequences, FiniteSets, TLC

VARIABLES
    cal,    \* the active calendar the host provides
    now,    \* the host's current date (1-based month), or NoDate
    req,    \* the call being made: [op |-> ..., arguments]
    res,    \* what the call returned, Pending before it ran
    pc      \* "call" before the function ran, "done" after

vars == <<cal, now, req, res, pc>>

----------------------------------------------------------------------------
(* Bounds of the model *)

\* months of a calendar: 1..MaxMonths
MaxMonths == 2
\* days of a month: 0..MaxMonthDays (0 is a zero-day month)
MaxMonthDays == 2
\* intercalary blocks of a calendar: 0..MaxBlocks
MaxBlocks == 2
\* years of the dates given to the converter and the scanners: 1..MaxYear
MaxYear == 2
\* absolute days given to fromAbsoluteDay: -MaxBack..MaxAbs
MaxBack == 7
MaxAbs == 12
\* years given to getYearInfo: -YearSpan..YearSpan, and the documented year
YearSpan == 80
\* cycle lengths of the moons: 1..MaxCycle
MaxCycle == 9

----------------------------------------------------------------------------
(* JavaScript arithmetic *)

Abs(x) == IF x < 0 THEN -x ELSE x

\* Math.max(a, b)
Max(a, b) == IF a >= b THEN a ELSE b

\* a % b of JavaScript on integers, b # 0: the remainder takes the sign of a
JsRem(a, b) == IF a >= 0 THEN a % Abs(b) ELSE -((-a) % Abs(b))

\* Math.floor(a / b) for integers, b > 0
FloorDiv(a, b) == a \div b

\* safeMod = (value, modulus) => ((value % modulus) + modulus) % modulus
safeMod(value, modulus) == JsRem(JsRem(value, modulus) + modulus, modulus)

----------------------------------------------------------------------------
(* IEEE 754 doubles, as far as the conjunction scan and the day counts of *)
(* the fraction model need them: finite *)
(* non-negative numbers, held exactly as an integer part and the bits of the *)
(* fraction (frac[i] has weight 2^-i), rounded to nearest, ties to even, to *)
(* the 53 bits of a double after every operation *)

\* the bits of the significand of a double
SignificandBits == 53

RECURSIVE BitLen(_)
\* the number of bits of the natural number n
BitLen(n) == IF n = 0 THEN 0 ELSE 1 + BitLen(n \div 2)

\* the positions of the 1 bits of bits
Ones(bits) == {i \in 1..Len(bits) : bits[i] = 1}

\* the number of 0 bits before the first 1 of bits
LeadingZeros(bits) ==
    IF Ones(bits) = {} THEN Len(bits)
    ELSE (CHOOSE i \in Ones(bits) : \A j \in Ones(bits) : i <= j) - 1

\* bits without its trailing zeros
StripZeros(bits) ==
    IF Ones(bits) = {} THEN <<>>
    ELSE SubSeq(bits, 1, CHOOSE i \in Ones(bits) : \A j \in Ones(bits) : j <= i)

PadTo(bits, n) == [i \in 1..Max(n, Len(bits)) |-> IF i <= Len(bits) THEN bits[i] ELSE 0]

Dbl(int, frac) == [int |-> int, frac |-> StripZeros(frac)]

FromInt(n) == Dbl(n, <<>>)

\* bits plus one unit of its last place: the 1 bits at the end become 0 and
\* the 0 before them becomes 1; the carry is 1 when there is no such 0
IncBits(bits) ==
    LET zeros == {i \in 1..Len(bits) : bits[i] = 0}
        z == IF zeros = {} THEN 0
             ELSE CHOOSE i \in zeros : \A j \in zeros : j <= i
    IN  [bits |-> [i \in 1..Len(bits) |->
                      IF i < z THEN bits[i] ELSE IF i = z THEN 1 ELSE 0],
         carry |-> IF z = 0 THEN 1 ELSE 0]

\* the fraction bits a double keeps for the exact value x
KeptFractionBits(x) ==
    IF x.int > 0 THEN SignificandBits - BitLen(x.int)
    ELSE LeadingZeros(x.frac) + SignificandBits

\* the double nearest to the exact value x, ties to even
RoundToDouble(x) ==
    LET p == KeptFractionBits(x)
    IN  IF Len(x.frac) <= p THEN Dbl(x.int, x.frac)
        ELSE LET kept == SubSeq(x.frac, 1, p)
                 guard == x.frac[p + 1]
                 sticky == \E j \in (p + 2)..Len(x.frac) : x.frac[j] = 1
                 last == IF p > 0 THEN x.frac[p] ELSE x.int % 2
                 inc == IncBits(kept)
             IN  IF guard = 1 /\ (sticky \/ last = 1)
                 THEN Dbl(x.int + inc.carry, inc.bits)
                 ELSE Dbl(x.int, kept)

RECURSIVE PowerOfTwoMod(_, _)
\* 2^n mod d, by squaring
PowerOfTwoMod(n, d) ==
    IF n = 0 THEN 1 % d
    ELSE LET h == PowerOfTwoMod(n \div 2, d)
         IN  (h * h * (IF n % 2 = 1 THEN 2 ELSE 1)) % d

\* the remainder of the long division of r by d (0 <= r < d) after n bits
DivisionRemainder(r, d, n) == (r * PowerOfTwoMod(n, d)) % d

\* the first n fraction bits of r / d (0 <= r < d) and the remainder
LongDivision(r, d, n) ==
    [bits |-> [i \in 1..n |->
                  IF 2 * DivisionRemainder(r, d, i - 1) >= d THEN 1 ELSE 0],
     rem |-> DivisionRemainder(r, d, n)]

RECURSIVE QuotientLeadingZeros(_, _)
\* the number of 0 bits before the first 1 of the fraction r / d, 0 < r < d
QuotientLeadingZeros(r, d) ==
    IF 2 * r >= d THEN 0 ELSE 1 + QuotientLeadingZeros(2 * r, d)

\* a / d of two integers, a >= 0 and d > 0, as a double: the quotient to one
\* bit more than a double keeps, and a last bit that says the rest is not zero
DivideInts(a, d) ==
    LET r == a % d
        n == IF r = 0 THEN 0
             ELSE QuotientLeadingZeros(r, d) + SignificandBits + 1
        q == LongDivision(r, d, n)
    IN  RoundToDouble([int |-> a \div d,
                       frac |-> q.bits \o <<IF q.rem > 0 THEN 1 ELSE 0>>])

\* the fraction is multiplied in limbs of LimbBits bits
LimbBits == 15

RECURSIVE LimbValue(_, _, _)
\* the number that the first t bits of limb j of bits spell
LimbValue(bits, j, t) ==
    IF t = 0 THEN 0
    ELSE LET i == LimbBits * (j - 1) + t
         IN  2 * LimbValue(bits, j, t - 1) + (IF i <= Len(bits) THEN bits[i] ELSE 0)

RECURSIVE TimesLimbs(_, _, _, _)
\* k times the limbs j..n of bits: the product limbs and the carry
TimesLimbs(bits, k, j, n) ==
    IF j > n THEN [limbs |-> <<>>, carry |-> 0]
    ELSE LET rest == TimesLimbs(bits, k, j + 1, n)
             v == k * LimbValue(bits, j, LimbBits) + rest.carry
         IN  [limbs |-> <<v % (2 ^ LimbBits)>> \o rest.limbs,
              carry |-> v \div (2 ^ LimbBits)]

\* k times the fraction bits, 0 <= k < 2^16: the bits and the carry
TimesBits(bits, k) ==
    LET n == (Len(bits) + LimbBits - 1) \div LimbBits
        t == TimesLimbs(bits, k, 1, n)
    IN  [bits |-> [i \in 1..(LimbBits * n) |->
                      (t.limbs[((i - 1) \div LimbBits) + 1]
                          \div (2 ^ (LimbBits - 1 - ((i - 1) % LimbBits)))) % 2],
         carry |-> t.carry]

\* k * x for an integer k, 0 <= k < 2^16, as a double
TimesInt(k, x) ==
    LET t == TimesBits(x.frac, k)
    IN  RoundToDouble([int |-> k * x.int + t.carry, frac |-> t.bits])

\* x + k for an integer k >= 0, as a double
PlusInt(x, k) == RoundToDouble([int |-> x.int + k, frac |-> x.frac])

\* x % k for an integer k > 0: exact
RemInt(x, k) == Dbl(x.int % k, x.frac)

\* bits1 < bits2, two bit strings of one length, from position i on
BitsLess(bits1, bits2, i) ==
    LET differ == {j \in i..Len(bits1) : bits1[j] # bits2[j]}
    IN  /\ differ # {}
        /\ bits1[CHOOSE j \in differ : \A l \in differ : j <= l] = 0

\* x < y
DblLess(x, y) ==
    LET n == Max(Len(x.frac), Len(y.frac))
    IN  \/ x.int < y.int
        \/ x.int = y.int /\ BitsLess(PadTo(x.frac, n), PadTo(y.frac, n), 1)

\* bits1 - bits2, two bit strings of one length: the bits and the borrow; a
\* position borrows when what is right of it is less in bits1 than in bits2
MinusBits(bits1, bits2) ==
    [bits |-> [i \in 1..Len(bits1) |->
                  (bits1[i] - bits2[i]
                      - (IF BitsLess(bits1, bits2, i + 1) THEN 1 ELSE 0)) % 2],
     borrow |-> IF BitsLess(bits1, bits2, 1) THEN 1 ELSE 0]

\* x - y for x >= y, as a double
DblMinus(x, y) ==
    LET n == Max(Len(x.frac), Len(y.frac))
        m == MinusBits(PadTo(x.frac, n), PadTo(y.frac, n))
    IN  RoundToDouble([int |-> x.int - y.int - m.borrow, frac |-> m.bits])

\* Math.abs(x - y)
AbsDifference(x, y) == IF DblLess(x, y) THEN DblMinus(y, x) ELSE DblMinus(x, y)

----------------------------------------------------------------------------
(* What the host provides *)

NoDate == [absent |-> TRUE]
Pending == [pending |-> TRUE]
Null == [null |-> TRUE]

\* the names of the months, by position
MonthNames == <<"Scorch", "Bloom", "Wind", "Gather", "Dominary">>

\* an intercalary block may name a month the calendar does not have
NoSuchMonth == "Sedulous"

RECURSIVE SeqsUpTo(_, _)
\* the sequences over S of length 0..n
SeqsUpTo(S, n) ==
    IF n = 0 THEN {<<>>}
    ELSE LET shorter == SeqsUpTo(S, n - 1)
         IN  shorter \cup {Append(s, x) : s \in {t \in shorter : Len(t) = n - 1}, x \in S}

MonthLists ==
    UNION {{[i \in 1..n |-> [name |-> MonthNames[i], days |-> d[i]]] :
                d \in [1..n -> 0..MaxMonthDays]} : n \in 1..MaxMonths}

BlocksFor(months) ==
    {[after |-> a, days |-> 2] :
        a \in {months[i].name : i \in 1..Len(months)} \cup {NoSuchMonth}}

----------------------------------------------------------------------------
(* buildCalendarMeta *)

\* x?.days || 0: a month or block without a day count counts as 0
DaysOrZero(x) == IF "days" \in DOMAIN x THEN x.days ELSE 0

\* the mutant of IntercalaryDaysAfter: only the first block after the month counts
IntercalaryDaysFirstBlock(intercalary, afterName, k) ==
    LET matching == {i \in 1..k : intercalary[i].after = afterName}
    IN  IF matching = {} THEN 0
        ELSE DaysOrZero(intercalary[CHOOSE i \in matching :
                                       \A j \in matching : i <= j])

RECURSIVE IntercalaryDaysAfter(_, _, _)
\* for (const ic of intercalary) if (ic?.after === afterName) running += (ic?.days || 0),
\* for the first k blocks
IntercalaryDaysAfter(intercalary, afterName, k) ==
    IF k = 0 THEN 0
    ELSE IntercalaryDaysAfter(intercalary, afterName, k - 1)
         + (IF intercalary[k].after = afterName THEN DaysOrZero(intercalary[k])
            ELSE 0)

RECURSIVE Running(_, _)
\* the value of `running` after the loop body ran for the first n months
Running(calendar, n) ==
    IF n = 0 THEN 0
    ELSE Running(calendar, n - 1)
         + DaysOrZero(calendar.months[n])
         + IntercalaryDaysAfter(calendar.intercalary, calendar.months[n].name,
                                Len(calendar.intercalary))

\* monthStarts[i] of the code is monthStarts[i + 1] here (sequences start at 1)
buildCalendarMeta(calendar) ==
    [monthStarts |-> [i \in 1..Len(calendar.months) |-> Running(calendar, i - 1)],
     daysPerYear |-> Running(calendar, Len(calendar.months))]

\* meta.monthStarts[monthIndex] || 0
MonthStartOrZero(meta, monthIndex) ==
    IF monthIndex \in 0..(Len(meta.monthStarts) - 1)
    THEN meta.monthStarts[monthIndex + 1]
    ELSE 0

----------------------------------------------------------------------------
(* getDayOfYear, toAbsoluteDay, fromAbsoluteDay *)

\* the mutant of getDayOfYear: the month's start offset is forgotten
getDayOfYearNoOffset(calendar, year, monthIndex, day) == (day - 1) + 1

getDayOfYear(calendar, year, monthIndex, day) ==
    MonthStartOrZero(buildCalendarMeta(calendar), monthIndex) + (day - 1) + 1

toAbsoluteDay(calendar, date) ==
    (date.year - 1) * buildCalendarMeta(calendar).daysPerYear
    + (getDayOfYear(calendar, date.year, date.month, date.day) - 1)

RECURSIVE ScanMonthsBackward(_, _, _)
\* for (i = monthStarts.length - 1; i >= 0; i--) if (doy0 >= monthStarts[i]) { month = i; break; }
\* called with i = monthStarts.length - 1; month stays 0 when no index matches
ScanMonthsBackward(monthStarts, doy0, i) ==
    IF i < 0 THEN 0
    ELSE IF doy0 >= monthStarts[i + 1] THEN i
    ELSE ScanMonthsBackward(monthStarts, doy0, i - 1)

RECURSIVE ScanMonthsForward(_, _, _)
ScanMonthsForward(monthStarts, doy0, i) ==
    IF i > Len(monthStarts) - 1 THEN 0
    ELSE IF doy0 >= monthStarts[i + 1] THEN i
    ELSE ScanMonthsForward(monthStarts, doy0, i + 1)

\* the mutant of fromAbsoluteDay: the months are scanned from the first one
fromAbsoluteDayForward(calendar, abs) ==
    LET meta == buildCalendarMeta(calendar)
        year == FloorDiv(abs, meta.daysPerYear) + 1
        doy0 == JsRem(abs, meta.daysPerYear)
        month == ScanMonthsForward(meta.monthStarts, doy0, 0)
        day == (doy0 - meta.monthStarts[month + 1]) + 1
    IN  [year |-> year, month |-> month, day |-> day]

\* the mutant of fromAbsoluteDay: the day of the month is left 0-based
fromAbsoluteDayZeroBased(calendar, abs) ==
    LET meta == buildCalendarMeta(calendar)
        year == FloorDiv(abs, meta.daysPerYear) + 1
        doy0 == JsRem(abs, meta.daysPerYear)
        month == ScanMonthsBackward(meta.monthStarts, doy0, Len(meta.monthStarts) - 1)
        day == doy0 - meta.monthStarts[month + 1]
    IN  [year |-> year, month |-> month, day |-> day]

\* the calendars of the model have daysPerYear > 0 (so at least one month)
fromAbsoluteDay(calendar, abs) ==
    LET meta == buildCalendarMeta(calendar)
        year == FloorDiv(abs, meta.daysPerYear) + 1
        doy0 == JsRem(abs, meta.daysPerYear)
        month == ScanMonthsBackward(meta.monthStarts, doy0, Len(meta.monthStarts) - 1)
        day == (doy0 - meta.monthStarts[month + 1]) + 1
    IN  [year |-> year, month |-> month, day |-> day]

----------------------------------------------------------------------------
(* The converter called on its own *)

\* calendars without moons, every month list with every intercalary list
ConvCalendars ==
    {c \in UNION {{[months |-> m, intercalary |-> ic, moons |-> <<>>] :
                      ic \in SeqsUpTo(BlocksFor(m), MaxBlocks)} : m \in MonthLists} :
        buildCalendarMeta(c).daysPerYear > 0}

\* internal dates (0-based month); the month may be one past the last month
\* and the day past the end of the month
ConvDates ==
    [year : 1..MaxYear, month : 0..MaxMonths, day : 1..(MaxMonthDays + 2)]

ConvRequests ==
    {[op |-> "toAbsoluteDay", date |-> d] : d \in ConvDates}
    \cup {[op |-> "fromAbsoluteDay", abs |-> a] : a \in (-MaxBack)..MaxAbs}

InitConv ==
    /\ cal \in ConvCalendars
    /\ now = NoDate
    /\ req \in ConvRequests
    /\ res = Pending
    /\ pc = "call"

CallToAbsoluteDay ==
    /\ pc = "call"
    /\ req.op = "toAbsoluteDay"
    /\ res' = [abs |-> toAbsoluteDay(cal, req.date)]
    /\ pc' = "done"
    /\ UNCHANGED <<cal, now, req>>

CallFromAbsoluteDay ==
    /\ pc = "call"
    /\ req.op = "fromAbsoluteDay"
    /\ res' = [date |-> fromAbsoluteDay(cal, req.abs)]
    /\ pc' = "done"
    /\ UNCHANGED <<cal, now, req>>

NextConv == CallToAbsoluteDay \/ CallFromAbsoluteDay

SpecConv == InitConv /\ [][NextConv]_vars

----------------------------------------------------------------------------
(* Claims about the converter, checked under SpecConv *)

\* a valid date: 0 <= month < monthCount, 1 <= day <= days of the month, year >= 1
ValidDate(calendar, d) ==
    /\ d.year >= 1
    /\ d.month \in 0..(Len(calendar.months) - 1)
    /\ d.day \in 1..calendar.months[d.month + 1].days

\* d1 is earlier than d2 in (year, month, day) order
Earlier(d1, d2) ==
    \/ d1.year < d2.year
    \/ d1.year = d2.year /\ d1.month < d2.month
    \/ d1.year = d2.year /\ d1.month = d2.month /\ d1.day < d2.day

HasZeroDayMonth(calendar) ==
    \E i \in 1..Len(calendar.months) : calendar.months[i].days = 0

HasMatchingBlock(calendar) ==
    \E k \in 1..Len(calendar.intercalary) : \E i \in 1..Len(calendar.months) :
        calendar.intercalary[k].after = calendar.months[i].name

ToAbsDone == pc = "done" /\ req.op = "toAbsoluteDay"
FromAbsDone == pc = "done" /\ req.op = "fromAbsoluteDay"

\* C1: for every valid date d, fromAbsoluteDay(toAbsoluteDay(d)) is d again
\* (same year, month and day), also in calendars with intercalary blocks and
\* zero-day months.
C1_RoundTripDate ==
    (ToAbsDone /\ ValidDate(cal, req.date))
        => fromAbsoluteDay(cal, res.abs) = req.date

\* a valid date of a later year, after a zero-day month and an intercalary block
C1_Witness ==
    /\ ToAbsDone /\ ValidDate(cal, req.date)
    /\ HasZeroDayMonth(cal) /\ HasMatchingBlock(cal)
    /\ cal.months[1].days = 0 /\ cal.intercalary[1].after = cal.months[1].name
    /\ req.date.year > 1 /\ req.date.month > 0
    /\ fromAbsoluteDay(cal, res.abs) = req.date

\* C2: for every absolute day a >= 0, toAbsoluteDay(fromAbsoluteDay(a)) = a,
\* also when a falls inside an intercalary block.
C2_RoundTripAbs ==
    (FromAbsDone /\ req.abs >= 0) => toAbsoluteDay(cal, res.date) = req.abs

\* an absolute day inside an intercalary block: the day reported is past the
\* end of the month the block follows
C2_Witness ==
    /\ FromAbsDone /\ req.abs >= 0
    /\ HasMatchingBlock(cal)
    /\ res.date.day > cal.months[res.date.month + 1].days
    /\ res.date.year > 1
    /\ toAbsoluteDay(cal, res.date) = req.abs

\* C3: toAbsoluteDay maps year 1 / month 0 / day 1 to 0, and a valid date that
\* is earlier than another valid date has the smaller absolute day.
C3_StrictlyIncreasing ==
    ToAbsDone =>
        /\ (req.date = [year |-> 1, month |-> 0, day |-> 1] => res.abs = 0)
        /\ ValidDate(cal, req.date) =>
              \A d2 \in ConvDates :
                  (ValidDate(cal, d2) /\ Earlier(req.date, d2))
                      => res.abs < toAbsoluteDay(cal, d2)

\* a valid date with a later valid date in a later month of the same year,
\* an intercalary block between them
C3_Witness ==
    /\ ToAbsDone /\ ValidDate(cal, req.date)
    /\ HasMatchingBlock(cal)
    /\ \E d2 \in ConvDates :
          /\ ValidDate(cal, d2) /\ d2.year = req.date.year /\ d2.month > req.date.month
          /\ res.abs + 2 < toAbsoluteDay(cal, d2)

\* C4: for every integer abs, negative ones included, the 0-based day of the
\* year is in [0, daysPerYear), the month returned is a valid index whose start
\* is <= that day of the year, the day returned is >= 1 and
\* toAbsoluteDay(fromAbsoluteDay(abs)) = abs.
C4_FloorModulo ==
    FromAbsDone =>
        LET meta == buildCalendarMeta(cal)
            doy0 == JsRem(req.abs, meta.daysPerYear)
        IN  /\ doy0 \in 0..(meta.daysPerYear - 1)
            /\ res.date.month \in 0..(Len(cal.months) - 1)
            /\ meta.monthStarts[res.date.month + 1] <= doy0
            /\ res.date.day >= 1
            /\ toAbsoluteDay(cal, res.date) = req.abs

----------------------------------------------------------------------------
(* Dates at the boundary *)

\* the host has no active calendar
NoCalendar == [absent |-> TRUE]

\* makeDate0: the 1-based month of a host date becomes the 0-based index
makeDate0(date) ==
    [year |-> date.year,
     month |-> IF date.month - 1 > 0 THEN date.month - 1 ELSE 0,
     day |-> date.day]

\* { year: d.year, month: d.month + 1, day: d.day }
WireDate(d) == [year |-> d.year, month |-> d.month + 1, day |-> d.day]

----------------------------------------------------------------------------
(* getAthasMoonPhases: the fraction model *)

\* const daysPerYear = run || 375
FallbackDaysPerYear == 375

\* toAbs of getAthasMoonPhases
toAbs(calendar, d) ==
    LET meta == buildCalendarMeta(calendar)
        daysPerYear == IF meta.daysPerYear = 0 THEN FallbackDaysPerYear
                       ELSE meta.daysPerYear
        doy == MonthStartOrZero(meta, d.month) + (d.day - 1) + 1
    IN  (d.year - 1) * daysPerYear + (doy - 1)

\* the mutant of MoonAge: the plain remainder
MoonAgePlain(abs, refAbs, cycle) == JsRem(abs - refAbs, cycle)

\* const ageDays = ((abs - refAbs) % cycle + cycle) % cycle
MoonAge(abs, refAbs, cycle) == JsRem(JsRem(abs - refAbs, cycle) + cycle, cycle)

\* the mutant of PhaseNameByFraction: New and Full last one day only
PhaseNameOneDay(ageDays, cycle) ==
    IF ageDays = 0 THEN "New Moon"
    ELSE IF 2 * ageDays = cycle THEN "Full Moon"
    ELSE IF 2 * ageDays < cycle THEN "Waxing Crescent"
    ELSE "Waning Crescent"

\* frac = ageDays / cycle compared with the eighths: frac < k/8 is
\* 8 * ageDays < k * cycle (cycle > 0)
PhaseNameByFraction(ageDays, cycle) ==
    IF 8 * ageDays < cycle THEN "New Moon"
    ELSE IF 8 * ageDays < 2 * cycle THEN "Waxing Crescent"
    ELSE IF 8 * ageDays < 3 * cycle THEN "First Quarter"
    ELSE IF 8 * ageDays < 4 * cycle THEN "Waxing Gibbous"
    ELSE IF 8 * ageDays < 5 * cycle THEN "Full Moon"
    ELSE IF 8 * ageDays < 6 * cycle THEN "Waning Gibbous"
    ELSE IF 8 * ageDays < 7 * cycle THEN "Last Quarter"
    ELSE "Waning Crescent"

\* the mutant of AthasMoonRecord: the fraction is compared with <=, so a day
\* on the boundary of two phases gets the name of the earlier one
AthasMoonRecordBoundaryEarlier(calendar, abs, m) ==
    LET cycle == m.cycleLength
        ref == m.firstNewMoon
        refAbs == toAbs(calendar, [year |-> ref.year, month |-> ref.month - 1,
                                   day |-> ref.day])
        ageDays == MoonAge(abs, refAbs, cycle)
        phaseName == IF 8 * ageDays <= cycle THEN "New Moon"
                     ELSE IF 8 * ageDays <= 2 * cycle THEN "Waxing Crescent"
                     ELSE IF 8 * ageDays <= 3 * cycle THEN "First Quarter"
                     ELSE IF 8 * ageDays <= 4 * cycle THEN "Waxing Gibbous"
                     ELSE IF 8 * ageDays <= 5 * cycle THEN "Full Moon"
                     ELSE IF 8 * ageDays <= 6 * cycle THEN "Waning Gibbous"
                     ELSE IF 8 * ageDays <= 7 * cycle THEN "Last Quarter"
                     ELSE "Waning Crescent"
    IN  [name |-> m.name, cycleLength |-> cycle, age |-> ageDays,
         phaseName |-> phaseName]

\* the record pushed for one moon (illumination, daysUntilFull and daysUntilNew
\* are computed in IEEE doubles with Math.cos and Math.ceil and are not part of
\* the record here)
AthasMoonRecord(calendar, abs, m) ==
    LET cycle == m.cycleLength
        ref == m.firstNewMoon
        refAbs == toAbs(calendar, [year |-> ref.year, month |-> ref.month - 1,
                                   day |-> ref.day])
        ageDays == MoonAge(abs, refAbs, cycle)
    IN  [name |-> m.name, cycleLength |-> cycle, age |-> ageDays,
         phaseName |-> PhaseNameByFraction(ageDays, cycle)]

RECURSIVE AthasMoonRecords(_, _, _, _)
\* for (const m of moons) { if (cycle <= 0) continue; ...; out.push(...) },
\* for the first k moons
AthasMoonRecords(calendar, abs, moons, k) ==
    IF k = 0 THEN <<>>
    ELSE LET before == AthasMoonRecords(calendar, abs, moons, k - 1)
         IN  IF moons[k].cycleLength <= 0 THEN before
             ELSE Append(before, AthasMoonRecord(calendar, abs, moons[k]))

\* a date argument without a finite year (NoDate) falls back to the current
\* date, whose month is taken as 0-based and incremented
getAthasMoonPhases(calendar, current, date) ==
    IF calendar = NoCalendar THEN <<>>
    ELSE LET src == IF date # NoDate THEN date
                    ELSE IF current # NoDate
                         THEN [year |-> current.year, month |-> current.month + 1,
                               day |-> current.day]
                         ELSE NoDate
         IN  IF src = NoDate
             \* date0.year is NaN: every age is NaN and every comparison of frac
             \* fails, which leaves the last phase name
             THEN [i \in 1..Len(SelectSeq(calendar.moons,
                                          LAMBDA m : m.cycleLength > 0)) |->
                      LET m == SelectSeq(calendar.moons,
                                         LAMBDA mm : mm.cycleLength > 0)[i]
                      IN  [name |-> m.name, cycleLength |-> m.cycleLength,
                           age |-> "NaN", phaseName |-> "Waning Crescent"]]
             ELSE AthasMoonRecords(calendar, toAbs(calendar, makeDate0(src)),
                                   calendar.moons, Len(calendar.moons))

\* const eps = 1e-3: the double nearest to 1/1000
Eps == DivideInts(1, 1000)

\* the doubles 0.5, 1 and 1.5
Half == Dbl(0, <<1>>)
One == FromInt(1)
OneAndHalf == Dbl(1, <<1>>)

\* Math.ceil of a double
Ceil(x) == IF x.frac = <<>> THEN x.int ELSE x.int + 1

\* const daysUntilNew = (frac < eps || frac > 1 - eps) ? 0 : Math.ceil((1 - frac) * cycle)
daysUntilNew(ageDays, cycle) ==
    LET frac == DivideInts(ageDays, cycle)
    IN  IF DblLess(frac, Eps) \/ DblLess(DblMinus(One, Eps), frac) THEN 0
        ELSE Ceil(TimesInt(cycle, DblMinus(One, frac)))

\* const daysUntilFull = Math.abs(frac - 0.5) < eps ? 0
\*     : Math.ceil((frac < 0.5 ? 0.5 - frac : 1.5 - frac) * cycle)
daysUntilFull(ageDays, cycle) ==
    LET frac == DivideInts(ageDays, cycle)
    IN  IF DblLess(AbsDifference(frac, Half), Eps) THEN 0
        ELSE Ceil(TimesInt(cycle, IF DblLess(frac, Half) THEN DblMinus(Half, frac)
                                  ELSE DblMinus(OneAndHalf, frac)))

\* the day counts of the record pushed for one moon; with no date at all the
\* age is NaN, every comparison fails and Math.ceil gives NaN
DayCounts(record, hasDate) ==
    IF hasDate
    THEN [daysUntilFull |-> daysUntilFull(record.age, record.cycleLength),
          daysUntilNew |-> daysUntilNew(record.age, record.cycleLength)]
    ELSE [daysUntilFull |-> "NaN", daysUntilNew |-> "NaN"]

\* api.getMoonPhases: a date with a valid year, else the current date
getMoonPhases(calendar, current, date) ==
    LET src == IF date # NoDate THEN date ELSE current
    IN  IF src = NoDate THEN <<>>
        ELSE getAthasMoonPhases(calendar, current, WireDate(makeDate0(src)))

----------------------------------------------------------------------------
(* computeMoonPhase: the segment model *)

\* an absent number (null)
NoNumber == <<>>
Number(n) == <<n>>

\* String.prototype.toLowerCase on the phase names of the model
ToLowerCase(name) ==
    CASE name = "New Moon" -> "new moon"
      [] name = "Full Moon" -> "full moon"
      [] name = "Waxing Crescent" -> "waxing crescent"
      [] name = "First Quarter" -> "first quarter"
      [] name = "Waxing Gibbous" -> "waxing gibbous"
      [] name = "Waning Gibbous" -> "waning gibbous"
      [] name = "Last Quarter" -> "last quarter"
      [] name = "Waning Crescent" -> "waning crescent"
      [] OTHER -> name

RECURSIVE FindSegmentInclusive(_, _, _, _)
\* the mutant of FindSegment: the day after a segment still belongs to it
FindSegmentInclusive(phases, age, i, accum) ==
    IF i >= Len(phases) THEN [phaseIndex |-> 0, segmentStart |-> 0]
    ELSE IF age <= accum + phases[i + 1].length
         THEN [phaseIndex |-> i, segmentStart |-> accum]
         ELSE FindSegmentInclusive(phases, age, i + 1, accum + phases[i + 1].length)

RECURSIVE FindSegment(_, _, _, _)
\* the loop that looks the segment of `age` up, from index i (0-based) with
\* `accum` days before it: [phaseIndex, segmentStart], both 0 when no segment
\* holds the age
FindSegment(phases, age, i, accum) ==
    IF i >= Len(phases) THEN [phaseIndex |-> 0, segmentStart |-> 0]
    ELSE IF age < accum + phases[i + 1].length
         THEN [phaseIndex |-> i, segmentStart |-> accum]
         ELSE FindSegment(phases, age, i + 1, accum + phases[i + 1].length)

\* the mutant of DaysUntilPhaseLoop: only the current segment is looked at
DaysUntilPhaseOneStep(phases, cycle, targetLower, step, d, idx, pos) ==
    IF ToLowerCase(phases[idx + 1].name) = targetLower
    THEN [days |-> Number(d + (phases[idx + 1].length - pos)), steps |-> step + 1]
    ELSE [days |-> NoNumber, steps |-> step + 1]

RECURSIVE DaysUntilPhaseLoop(_, _, _, _, _, _, _)
\* the loop of daysUntilPhase at `step`, with d, idx and pos as the code has
\* them: the value returned and the number of times the loop body ran
DaysUntilPhaseLoop(phases, cycle, targetLower, step, d, idx, pos) ==
    IF step > cycle + Len(phases) THEN [days |-> NoNumber, steps |-> step]
    ELSE LET name == ToLowerCase(phases[idx + 1].name)
             len == phases[idx + 1].length
         IN  IF name = targetLower
             THEN [days |-> Number(d + (len - pos)), steps |-> step + 1]
             ELSE DaysUntilPhaseLoop(phases, cycle, targetLower, step + 1,
                                     d + (len - pos), JsRem(idx + 1, Len(phases)), 0)

\* daysUntilPhase with the number of loop steps it took
DaysUntilPhaseRun(phases, cycle, phaseIndex, posInSegment, targetLower) ==
    IF Len(phases) = 0 THEN [days |-> NoNumber, steps |-> 0]
    ELSE DaysUntilPhaseLoop(phases, cycle, targetLower, 0, 0, phaseIndex, posInSegment)

daysUntilPhase(phases, cycle, phaseIndex, posInSegment, targetLower) ==
    DaysUntilPhaseRun(phases, cycle, phaseIndex, posInSegment, targetLower).days

\* age, phaseIndex, segmentStart and posInSegment of computeMoonPhase for a
\* moon of positive cycle length
LocateSegment(calendar, date, moon) ==
    LET ref == moon.firstNewMoon
        refAbs == toAbsoluteDay(calendar, [year |-> ref.year,
                                           month |-> ref.month - 1,
                                           day |-> ref.day])
        abs == toAbsoluteDay(calendar, date)
        age == safeMod(abs - refAbs, moon.cycleLength)
        found == FindSegment(moon.phases, age, 0, 0)
    IN  [age |-> age, phaseIndex |-> found.phaseIndex,
         segmentStart |-> found.segmentStart,
         posInSegment |-> age - found.segmentStart]

\* date has a 0-based month; Null when the moon has no positive cycle length
computeMoonPhase(calendar, date, moon) ==
    LET cycle == moon.cycleLength
    IN  IF cycle <= 0 THEN Null
        ELSE LET at == LocateSegment(calendar, date, moon)
                 phases == moon.phases
             IN  [name |-> moon.name,
                  cycleLength |-> cycle,
                  age |-> at.age,
                  phaseName |-> IF at.phaseIndex < Len(phases)
                                THEN phases[at.phaseIndex + 1].name
                                ELSE "null",
                  phaseIndex |-> at.phaseIndex,
                  daysUntilNew |-> daysUntilPhase(phases, cycle, at.phaseIndex,
                                                  at.posInSegment, "new moon"),
                  daysUntilFull |-> daysUntilPhase(phases, cycle, at.phaseIndex,
                                                   at.posInSegment, "full moon")]

\* moons.map(m => computeMoonPhase(calendar, date, m)).filter(Boolean)
getMoonPhasesForDate(calendar, date) ==
    IF calendar = NoCalendar THEN <<>>
    ELSE SelectSeq([i \in 1..Len(calendar.moons) |->
                       computeMoonPhase(calendar, date, calendar.moons[i])],
                   LAMBDA r : r # Null)

----------------------------------------------------------------------------
(* scanEclipsesRange *)

\* the mutant of AllPhase: one moon in the phase is enough
SomePhase(phases, lower) ==
    \E i \in 1..Len(phases) : ToLowerCase(phases[i].phaseName) = lower

\* phases.every(p => (p.phaseName||'').toLowerCase() === lower)
AllPhase(phases, lower) ==
    \A i \in 1..Len(phases) : ToLowerCase(phases[i].phaseName) = lower

RECURSIVE ScanEclipsesLoop(_, _, _, _)
\* for (let abs = a; abs <= b; abs++) { ... out.push(...) }, from abs on
ScanEclipsesLoop(calendar, current, abs, b) ==
    IF abs > b THEN <<>>
    ELSE LET d == fromAbsoluteDay(calendar, abs)
             phases == getAthasMoonPhases(calendar, current, WireDate(d))
             bothNew == AllPhase(phases, "new moon")
             bothFull == AllPhase(phases, "full moon")
             rest == ScanEclipsesLoop(calendar, current, abs + 1, b)
         IN  IF Len(phases) < 2 THEN rest
             ELSE IF bothNew \/ bothFull
                  THEN <<[date |-> WireDate(d),
                          type |-> IF bothFull THEN "Brightest" ELSE "Darkest",
                          phases |-> phases]>> \o rest
                  ELSE rest

\* the mutant of scanEclipsesRange: the two ends are taken as given
scanEclipsesRangeAsGiven(calendar, current, fromDate, toDate) ==
    IF calendar = NoCalendar THEN <<>>
    ELSE IF fromDate = NoDate \/ toDate = NoDate THEN <<>>
    ELSE ScanEclipsesLoop(calendar, current,
                          toAbsoluteDay(calendar, makeDate0(fromDate)),
                          toAbsoluteDay(calendar, makeDate0(toDate)))

\* a missing date makes makeDate0 throw, which the catch turns into []
scanEclipsesRange(calendar, current, fromDate, toDate) ==
    IF calendar = NoCalendar THEN <<>>
    ELSE IF fromDate = NoDate \/ toDate = NoDate THEN <<>>
    ELSE LET a0 == toAbsoluteDay(calendar, makeDate0(fromDate))
             b0 == toAbsoluteDay(calendar, makeDate0(toDate))
             a == IF b0 < a0 THEN b0 ELSE a0
             b == IF b0 < a0 THEN a0 ELSE b0
         IN  ScanEclipsesLoop(calendar, current, a, b)

\* api.getEclipses
getEclipses(calendar, current, fromDate, toDate) ==
    scanEclipsesRange(calendar, current, fromDate, toDate)

----------------------------------------------------------------------------
(* getEclipseInfo, findLandmark, getNextBrightest, getNextDarkest *)

\* the eclipse of one host date (1-based month); the test for New comes first
getEclipseInfo(calendar, current, date) ==
    LET phases == getAthasMoonPhases(calendar, current, date)
    IN  IF Len(phases) < 2 THEN Null
        ELSE IF AllPhase(phases, "new moon") THEN [type |-> "Darkest (both New)"]
        ELSE IF AllPhase(phases, "full moon") THEN [type |-> "Brightest (both Full)"]
        ELSE Null

\* function findLandmark(fromDate, type, direction, maxYears = 12)
LandmarkMaxYears == 12

\* (type === 'Brightest' && bothFull) || (type === 'Darkest' && bothNew)
IsLandmark(phases, type) ==
    /\ Len(phases) >= 2
    /\ \/ type = "Brightest" /\ AllPhase(phases, "full moon")
       \/ type = "Darkest" /\ AllPhase(phases, "new moon")

RECURSIVE FindLandmarkFrom(_, _, _, _, _, _, _)
\* the loop of findLandmark from index i on: the first day that matches
FindLandmarkFrom(calendar, current, startAbs, type, step, i, maxScan) ==
    IF i > maxScan THEN Null
    ELSE LET abs == startAbs + i * step
             d == fromAbsoluteDay(calendar, abs)
             phases == getAthasMoonPhases(calendar, current, WireDate(d))
         IN  IF IsLandmark(phases, type)
             THEN [date |-> WireDate(d), type |-> type]
             ELSE FindLandmarkFrom(calendar, current, startAbs, type, step,
                                   i + 1, maxScan)

\* the mutant of FindLandmarkLoop: the start day itself is not examined
FindLandmarkLoopAfterStart(calendar, current, startAbs, type, step, maxScan) ==
    FindLandmarkFrom(calendar, current, startAbs, type, step, 1, maxScan)

\* for (let i = 0; i <= maxScan; i++) { ... return { date, type } }
FindLandmarkLoop(calendar, current, startAbs, type, step, maxScan) ==
    FindLandmarkFrom(calendar, current, startAbs, type, step, 0, maxScan)

\* Math.max(1, Math.floor(meta.daysPerYear * maxYears))
LandmarkMaxScan(calendar, maxYears) ==
    Max(1, buildCalendarMeta(calendar).daysPerYear * maxYears)

findLandmark(calendar, current, fromDate, type, direction, maxYears) ==
    IF calendar = NoCalendar THEN Null
    ELSE LET startAbs == toAbsoluteDay(calendar, makeDate0(fromDate))
             step == IF direction = "prev" THEN -1 ELSE 1
         IN  FindLandmarkLoop(calendar, current, startAbs, type, step,
                              LandmarkMaxScan(calendar, maxYears))

\* api.getNextBrightest: a date with a valid year, else the current date
getNextBrightest(calendar, current, fromDate) ==
    LET src == IF fromDate # NoDate THEN fromDate ELSE current
    IN  IF src = NoDate THEN Null
        ELSE findLandmark(calendar, current, src, "Brightest", "next",
                          LandmarkMaxYears)

\* api.getNextDarkest
getNextDarkest(calendar, current, fromDate) ==
    LET src == IF fromDate # NoDate THEN fromDate ELSE current
    IN  IF src = NoDate THEN Null
        ELSE findLandmark(calendar, current, src, "Darkest", "next",
                          LandmarkMaxYears)

----------------------------------------------------------------------------
(* degDiff, scanConjunctionsRange, getConjunctionInfo *)

\* scanConjunctionsRange(fromDate, toDate, tolDeg = 5)
DefaultTolDeg == 5

\* const norm = (x) => ((x % 360) + 360) % 360, for x >= 0
NormDegrees(x) == RemInt(PlusInt(RemInt(x, 360), 360), 360)

degDiff(a, b) ==
    LET d == AbsDifference(NormDegrees(a), NormDegrees(b))
    IN  IF DblLess(FromInt(180), d) THEN DblMinus(FromInt(360), d) ELSE d

RECURSIVE FindByName(_, _, _)
\* phases.find(p => (p.name||'') === name), from position i on; Null if none
FindByName(phases, name, i) ==
    IF i > Len(phases) THEN Null
    ELSE IF phases[i].name = name THEN phases[i]
    ELSE FindByName(phases, name, i + 1)

\* phases.find(p => p.name === name) || phases[index]
MoonNamedOrAt(phases, name, index) ==
    LET found == FindByName(phases, name, 1)
    IN  IF found # Null THEN found ELSE phases[index + 1]

\* (fr > 0.25 && fr < 0.75) || (fg > 0.25 && fg < 0.75)
Visible(fr, fg) ==
    LET quarter == Dbl(0, <<0, 1>>)
        threeQuarters == Dbl(0, <<1, 1>>)
    IN  \/ DblLess(quarter, fr) /\ DblLess(fr, threeQuarters)
        \/ DblLess(quarter, fg) /\ DblLess(fg, threeQuarters)

\* the conjunction of the records of one day: the separation and the
\* visibility, or Null when the separation is above the tolerance
ConjunctionOf(phases, tolDeg) ==
    LET r == MoonNamedOrAt(phases, "Ral", 0)
        g == MoonNamedOrAt(phases, "Guthay", 1)
        fr == DivideInts(r.age, r.cycleLength)
        fg == DivideInts(g.age, g.cycleLength)
        delta == degDiff(TimesInt(360, fr), TimesInt(360, fg))
    IN  IF ~DblLess(FromInt(tolDeg), delta)
        THEN [sepDeg |-> delta, visible |-> Visible(fr, fg)]
        ELSE Null

RECURSIVE ScanConjunctionsLoop(_, _, _, _, _)
\* for (let abs = a; abs <= b; abs++) { ... results.push(...) }, from abs on
ScanConjunctionsLoop(calendar, current, abs, b, tolDeg) ==
    IF abs > b THEN <<>>
    ELSE LET d == fromAbsoluteDay(calendar, abs)
             phases == getAthasMoonPhases(calendar, current, WireDate(d))
             rest == ScanConjunctionsLoop(calendar, current, abs + 1, b, tolDeg)
         IN  IF Len(phases) < 2 THEN rest
             ELSE LET c == ConjunctionOf(phases, tolDeg)
                  IN  IF c # Null
                      THEN <<[date |-> WireDate(d), sepDeg |-> c.sepDeg,
                              visible |-> c.visible, phases |-> phases]>> \o rest
                      ELSE rest

\* a missing date makes makeDate0 throw, which the catch turns into []
scanConjunctionsRange(calendar, current, fromDate, toDate, tolDeg) ==
    IF calendar = NoCalendar THEN <<>>
    ELSE IF fromDate = NoDate \/ toDate = NoDate THEN <<>>
    ELSE LET a0 == toAbsoluteDay(calendar, makeDate0(fromDate))
             b0 == toAbsoluteDay(calendar, makeDate0(toDate))
             a == IF b0 < a0 THEN b0 ELSE a0
             b == IF b0 < a0 THEN a0 ELSE b0
         IN  ScanConjunctionsLoop(calendar, current, a, b, tolDeg)

\* api.getConjunctions
getConjunctions(calendar, current, fromDate, toDate) ==
    scanConjunctionsRange(calendar, current, fromDate, toDate, DefaultTolDeg)

\* getConjunctionInfo(date, tolDeg = 5) of a host date (1-based month)
getConjunctionInfo(calendar, current, date, tolDeg) ==
    LET phases == getAthasMoonPhases(calendar, current, date)
    IN  IF Len(phases) < 2 THEN Null
        ELSE IF date = NoDate /\ current = NoDate
             \* every age is NaN: (Number(r.age)||0) is 0 for both moons
             THEN [sepDeg |-> FromInt(0), visible |-> FALSE]
             ELSE ConjunctionOf(phases, tolDeg)

----------------------------------------------------------------------------
(* The /eclipse chat command *)

\* const maxScan = meta.daysPerYear * 10
EclipseCommandYears == 10

RECURSIVE EclipseCommandLoop(_, _, _, _, _)
\* for (let i = 0; i < maxScan; i++) { ... if (isNewBoth) { found = d; break; } }
\* from index i on: the date found (0-based month), or Null
EclipseCommandLoop(calendar, startAbs, step, i, maxScan) ==
    IF i >= maxScan THEN Null
    ELSE LET d == fromAbsoluteDay(calendar, startAbs + i * step)
             phases == getMoonPhasesForDate(calendar, d)
         IN  IF Len(phases) >= 2 /\ AllPhase(phases, "new moon") THEN d
             ELSE EclipseCommandLoop(calendar, startAbs, step, i + 1, maxScan)

\* dir.startsWith('prev') for the directions of the model
StartsWithPrev(dir) == dir \in {"prev", "previous"}

\* the callback of /eclipse; parameters is the text after the command
eclipseCommand(calendar, current, parameters) ==
    IF calendar = NoCalendar THEN [content |-> "Active calendar not available."]
    ELSE IF current = NoDate THEN [content |-> "No current date available."]
    ELSE LET dir == IF parameters = "" THEN "next" ELSE parameters
             startAbs == toAbsoluteDay(calendar, makeDate0(current))
             step == IF StartsWithPrev(dir) THEN -1 ELSE 1
             maxScan == buildCalendarMeta(calendar).daysPerYear * EclipseCommandYears
             found == EclipseCommandLoop(calendar, startAbs, step, 0, maxScan)
         IN  IF found = Null
             THEN [content |-> "No eclipse window found in scan range."]
             ELSE [content |-> "Eclipse window:", date |-> found]

----------------------------------------------------------------------------
(* parseYMD and the /doy, /abs and /moons chat commands *)

\* a text is the sequence of its characters
DigitChars == <<"0", "1", "2", "3", "4", "5", "6", "7", "8", "9">>

\* \d
IsDigit(c) == \E i \in 1..Len(DigitChars) : DigitChars[i] = c

RECURSIVE NumberOfDigits(_)
\* Number(m[k]) of a group of decimal digits
NumberOfDigits(text) ==
    IF text = <<>> THEN 0
    ELSE 10 * NumberOfDigits(SubSeq(text, 1, Len(text) - 1))
         + (CHOOSE i \in 1..Len(DigitChars) : DigitChars[i] = text[Len(text)]) - 1

\* (\d{lo,hi})
DigitGroup(text, lo, hi) ==
    Len(text) \in lo..hi /\ \A i \in 1..Len(text) : IsDigit(text[i])

\* String(arg).match(/^(\d{1,6})-(\d{1,2})-(\d{1,2})$/): three groups of digits
\* between two dashes; month = Number(m[2]) - 1
parseYMD(arg) ==
    LET dashes == {i \in 1..Len(arg) : arg[i] = "-"}
    IN  IF Cardinality(dashes) # 2 THEN Null
        ELSE LET d1 == CHOOSE i \in dashes : \A j \in dashes : i <= j
                 d2 == CHOOSE i \in dashes : \A j \in dashes : j <= i
                 y == SubSeq(arg, 1, d1 - 1)
                 m == SubSeq(arg, d1 + 1, d2 - 1)
                 d == SubSeq(arg, d2 + 1, Len(arg))
             IN  IF DigitGroup(y, 1, 6) /\ DigitGroup(m, 1, 2) /\ DigitGroup(d, 1, 2)
                 THEN [year |-> NumberOfDigits(y), month |-> NumberOfDigits(m) - 1,
                       day |-> NumberOfDigits(d)]
                 ELSE Null

\* const dateArg = arg ? parseYMD(arg) : null; const raw = dateArg || getCurrentDateSafe()
RawDate(current, parameters) ==
    LET dateArg == IF parameters # <<>> THEN parseYMD(parameters) ELSE Null
    IN  IF dateArg # Null THEN dateArg ELSE current

\* the callback of /doy; parameters is the text after the command
doyCommand(calendar, current, parameters) ==
    IF calendar = NoCalendar THEN [content |-> "Active calendar not available."]
    ELSE LET raw == RawDate(current, parameters)
         IN  IF raw = NoDate THEN [content |-> "No current date available."]
             ELSE LET d0 == makeDate0(raw)
                  IN  [content |-> "Day of Year:",
                       value |-> getDayOfYear(calendar, d0.year, d0.month, d0.day)]

\* the callback of /abs
absCommand(calendar, current, parameters) ==
    IF calendar = NoCalendar THEN [content |-> "Active calendar not available."]
    ELSE LET raw == RawDate(current, parameters)
         IN  IF raw = NoDate THEN [content |-> "No current date available."]
             ELSE [content |-> "Absolute Day:",
                   value |-> toAbsoluteDay(calendar, makeDate0(raw))]

\* the callback of /moons: the heading is formatDate(cal, date0), the lines are
\* the records of getAthasMoonPhases
moonsCommand(calendar, current, parameters) ==
    IF calendar = NoCalendar THEN [content |-> "Active calendar not available."]
    ELSE LET raw == RawDate(current, parameters)
         IN  IF raw = NoDate THEN [content |-> "No current date available."]
             ELSE LET date0 == makeDate0(raw)
                      phases == getAthasMoonPhases(calendar, current,
                                    [year |-> date0.year, month |-> date0.month + 1,
                                     day |-> date0.day])
                  IN  IF Len(phases) = 0
                      THEN [content |-> "No moon data available."]
                      ELSE [content |-> "Moons", date |-> date0, phases |-> phases]

----------------------------------------------------------------------------
(* getSeasonName *)

\* a name that may be absent (null): NoName, or Name(n)
NoName == <<>>
Name(n) == <<n>>

\* calendar?.seasons || []
SeasonsOf(calendar) ==
    IF calendar = NoCalendar THEN <<>>
    ELSE IF "seasons" \in DOMAIN calendar THEN calendar.seasons
    ELSE <<>>

\* the mutant of SeasonContains: both ends are tested with AND in either case
SeasonContainsBothEnds(s, m1) == m1 >= s.startMonth /\ m1 <= s.endMonth

\* s.startMonth <= s.endMonth ? (m1 >= s.startMonth && m1 <= s.endMonth)
\*                            : (m1 >= s.startMonth || m1 <= s.endMonth)
SeasonContains(s, m1) ==
    IF s.startMonth <= s.endMonth
    THEN m1 >= s.startMonth /\ m1 <= s.endMonth
    ELSE m1 >= s.startMonth \/ m1 <= s.endMonth

RECURSIVE SeasonLoop(_, _, _)
\* for (const s of seasons) { if (...) return s.name; } return null, from the
\* season at position i on
SeasonLoop(seasons, m1, i) ==
    IF i > Len(seasons) THEN NoName
    ELSE IF SeasonContains(seasons[i], m1) THEN Name(seasons[i].name)
    ELSE SeasonLoop(seasons, m1, i + 1)

getSeasonName(calendar, monthIndex) ==
    SeasonLoop(SeasonsOf(calendar), monthIndex + 1, 1)

----------------------------------------------------------------------------
(* The moon functions called by the host *)

MonthsOf(days) == [i \in 1..Len(days) |-> [name |-> MonthNames[i], days |-> days[i]]]

\* the month structures of the calendars with moons: plain, an intercalary
\* block inside the year, one at the end of the year, a zero-day first month
MoonStructures ==
    {[months |-> MonthsOf(<<2, 1>>), intercalary |-> <<>>],
     [months |-> MonthsOf(<<2, 1>>),
      intercalary |-> <<[after |-> "Scorch", days |-> 2]>>],
     [months |-> MonthsOf(<<1, 2>>),
      intercalary |-> <<[after |-> "Bloom", days |-> 2]>>],
     [months |-> MonthsOf(<<0, 2>>), intercalary |-> <<>>]}

\* host dates (1-based month) of the model's years; the day may lie in an
\* intercalary block or past the end of the month
HostDates(st) ==
    [year : 1..MaxYear, month : 1..Len(st.months), day : 1..(MaxMonthDays + 2)]

\* a valid date in host form
ValidHostDate(st, d) ==
    /\ d.year >= 1
    /\ d.month \in 1..Len(st.months)
    /\ d.day \in 1..st.months[d.month].days

\* reference new moons: the first day of a month, in the first or the last year
RefDates(st) ==
    {d \in HostDates(st) : ValidHostDate(st, d) /\ d.day = 1 /\ d.year \in {1, MaxYear}}

\* the phase segments of a moon of cycle length c: they partition the cycle
SegmentsOf(c) ==
    <<[name |-> "New Moon", length |-> 1],
      [name |-> "Waxing Crescent", length |-> (c - 1) \div 2],
      [name |-> "Full Moon", length |-> (c - 1) - ((c - 1) \div 2)]>>

Moon(n, c, r) ==
    [name |-> n, cycleLength |-> c, firstNewMoon |-> r, phases |-> SegmentsOf(c)]

\* the cycle length of a second moon that differs from the first
OtherCycle == 3

\* one moon, or two: the second with the cycle and reference of the first, or
\* with its own
MoonLists(st) ==
    {<<Moon("Ral", c, r)>> : c \in 1..MaxCycle, r \in RefDates(st)}
    \cup UNION {{<<Moon("Ral", c, r), Moon("Guthay", c2, r2)>> :
                    c2 \in {c, OtherCycle},
                    r2 \in {r, CHOOSE x \in RefDates(st) :
                                  \A y \in RefDates(st) :
                                      toAbsoluteDay(st, makeDate0(x))
                                          <= toAbsoluteDay(st, makeDate0(y))}} :
                c \in 1..MaxCycle, r \in RefDates(st)}

MoonCalendars ==
    UNION {{[months |-> st.months, intercalary |-> st.intercalary, moons |-> ms] :
               ms \in MoonLists(st)} : st \in MoonStructures}

CurrentDates == {NoDate, [year |-> 1, month |-> 1, day |-> 2]}

MoonRequests(calendar) ==
    {[op |-> "getMoonPhases", date |-> d] : d \in HostDates(calendar) \cup {NoDate}}
    \cup {[op |-> "getMoonPhasesForDate", date |-> makeDate0(d)] :
             d \in HostDates(calendar)}

InitMoon ==
    /\ cal \in MoonCalendars
    /\ now \in CurrentDates
    /\ req \in MoonRequests(cal)
    /\ res = Pending
    /\ pc = "call"

CallGetMoonPhases ==
    /\ pc = "call"
    /\ req.op = "getMoonPhases"
    /\ res' = [phases |-> getMoonPhases(cal, now, req.date)]
    /\ pc' = "done"
    /\ UNCHANGED <<cal, now, req>>

CallGetMoonPhasesForDate ==
    /\ pc = "call"
    /\ req.op = "getMoonPhasesForDate"
    /\ res' = [phases |-> getMoonPhasesForDate(cal, req.date)]
    /\ pc' = "done"
    /\ UNCHANGED <<cal, now, req>>

NextMoon == CallGetMoonPhases \/ CallGetMoonPhasesForDate

SpecMoon == InitMoon /\ [][NextMoon]_vars

\* the range scans start on the first day of a month
ScanRequests(calendar) ==
    {[op |-> "getEclipses", from |-> f, to |-> t] :
        f \in {d \in HostDates(calendar) : d.day = 1}, t \in HostDates(calendar)}

InitScan ==
    /\ cal \in MoonCalendars
    /\ now = NoDate
    /\ req \in ScanRequests(cal)
    /\ res = Pending
    /\ pc = "call"

CallGetEclipses ==
    /\ pc = "call"
    /\ req.op = "getEclipses"
    /\ res' = [matches |-> getEclipses(cal, now, req.from, req.to)]
    /\ pc' = "done"
    /\ UNCHANGED <<cal, now, req>>

NextScan == CallGetEclipses

SpecScan == InitScan /\ [][NextScan]_vars

----------------------------------------------------------------------------
(* Claims about the moons, checked under SpecMoon and SpecScan *)

MoonPhasesDone ==
    /\ pc = "done"
    /\ req.op \in {"getMoonPhases", "getMoonPhasesForDate"}
    /\ req.date # NoDate

\* the date asked about, with a 0-based month
QueryDate0 == IF req.op = "getMoonPhases" THEN makeDate0(req.date) ELSE req.date

\* the records the same function returns for the day after the date asked about
NextDayPhases ==
    LET next == fromAbsoluteDay(cal, toAbsoluteDay(cal, QueryDate0) + 1)
    IN  IF req.op = "getMoonPhases"
        THEN getMoonPhases(cal, now, WireDate(next))
        ELSE getMoonPhasesForDate(cal, next)

RefAbs(calendar, m) == toAbsoluteDay(calendar, makeDate0(m.firstNewMoon))

\* C9: for a moon of integer cycle length L the age of every date is in
\* [0, L), also before the reference new moon; one day later the age is
\* (age + 1) mod L, also across month, intercalary and year boundaries; and the
\* age is 0 exactly on the days a multiple of L away from the reference date.
C9_MoonAgeCycles ==
    MoonPhasesDone =>
        /\ Len(res.phases) = Len(cal.moons)
        /\ Len(NextDayPhases) = Len(cal.moons)
        /\ \A i \in 1..Len(cal.moons) :
              LET L == cal.moons[i].cycleLength
                  age == res.phases[i].age
                  offset == toAbsoluteDay(cal, QueryDate0) - RefAbs(cal, cal.moons[i])
              IN  /\ age \in 0..(L - 1)
                  /\ NextDayPhases[i].age = (age + 1) % L
                  /\ (age = 0) <=> (offset % L = 0)

\* the last day of a year that ends with an intercalary block, one day before
\* the reference new moon: the age wraps from L - 1 to 0 over the year boundary
C9_Witness ==
    /\ MoonPhasesDone
    /\ HasMatchingBlock(cal)
    /\ cal.moons[1].cycleLength > 2
    /\ toAbsoluteDay(cal, QueryDate0) < RefAbs(cal, cal.moons[1])
    /\ fromAbsoluteDay(cal, toAbsoluteDay(cal, QueryDate0) + 1).year > QueryDate0.year
    /\ QueryDate0.day > cal.months[QueryDate0.month + 1].days
    /\ res.phases[1].age = cal.moons[1].cycleLength - 1
    /\ NextDayPhases[1].age = 0

\* two moons with one reference new moon and one cycle length, scanned from
\* the reference date over exactly one cycle
SharedCycleScan ==
    /\ pc = "done"
    /\ req.op = "getEclipses"
    /\ Len(cal.moons) = 2
    /\ cal.moons[1].firstNewMoon = cal.moons[2].firstNewMoon
    /\ cal.moons[1].cycleLength = cal.moons[2].cycleLength
    /\ req.from = cal.moons[1].firstNewMoon
    /\ toAbsoluteDay(cal, makeDate0(req.to))
          = toAbsoluteDay(cal, makeDate0(req.from)) + cal.moons[1].cycleLength - 1

MatchesOfType(matches, type) == SelectSeq(matches, LAMBDA m : m.type = type)

\* C10 as stated: the scan returns exactly one 'Darkest' match, dated at the
\* shared reference date, and exactly one 'Brightest' match, near the
\* half-cycle point (stated here for the cycles of more than 8 days, such as
\* the 34-day cycle of the claims).
C10_OneDarkestOneBrightest ==
    (SharedCycleScan /\ cal.moons[1].cycleLength > 8) =>
        LET L == cal.moons[1].cycleLength
            dark == MatchesOfType(res.matches, "Darkest")
            bright == MatchesOfType(res.matches, "Brightest")
        IN  /\ Len(dark) = 1
            /\ dark[1].date = cal.moons[1].firstNewMoon
            /\ Len(bright) = 1
            /\ toAbsoluteDay(cal, makeDate0(bright[1].date)) - RefAbs(cal, cal.moons[1])
                  \in {L \div 2, (L + 1) \div 2}

\* C10 as amended: the scan returns, in date order, a 'Darkest' match for
\* every day of the first eighth of the cycle (age a with 8a < L; the first is
\* dated at the shared reference date) and a 'Brightest' match for every day
\* with L/2 <= a < 5L/8, and no other match.
C10_EclipseDaysOfSharedCycle ==
    SharedCycleScan =>
        LET L == cal.moons[1].cycleLength
            refAbs == RefAbs(cal, cal.moons[1])
            Dark == {k \in 0..(L - 1) : 8 * k < L}
            Bright == {k \in 0..(L - 1) : 4 * L <= 8 * k /\ 8 * k < 5 * L}
            nDark == Cardinality(Dark)
        IN  /\ Len(res.matches) = nDark + Cardinality(Bright)
            /\ nDark >= 1
            /\ res.matches[1].date = cal.moons[1].firstNewMoon
            /\ \A j \in 1..Len(res.matches) :
                  LET m == res.matches[j]
                      k == toAbsoluteDay(cal, makeDate0(m.date)) - refAbs
                  IN  /\ m.date = WireDate(fromAbsoluteDay(cal, refAbs + k))
                      /\ j <= nDark => (k = j - 1 /\ m.type = "Darkest")
                      /\ j > nDark =>
                            /\ m.type = "Brightest"
                            /\ k \in Bright
                            /\ k = (CHOOSE b \in Bright : \A c \in Bright : b <= c)
                                   + (j - nDark - 1)

\* a shared cycle of more than 8 days: both moons are New on the reference
\* date and on the day after it, and Full later in the cycle
C10_Witness ==
    /\ SharedCycleScan
    /\ cal.moons[1].cycleLength > 8
    /\ Len(res.matches) >= 3
    /\ res.matches[1].type = "Darkest"
    /\ res.matches[2].type = "Darkest"
    /\ res.matches[Len(res.matches)].type = "Brightest"

----------------------------------------------------------------------------
(* getYearInfo *)

\* the length of a King's Age in years
KingsAgeLength == 77

\* the year the code's comment aligns the King's Ages on
DocumentedYear == 14656

\* Cycle 1: 11 names
endlean == <<"Ral", "Friend", "Desert", "Priest", "Wind", "Dragon", "Mountain",
             "King", "Silt", "Enemy", "Guthay">>

\* Cycle 2: 7 names
seofean == <<"Fury", "Contemplation", "Vengeance", "Slumber", "Defiance",
             "Reverence", "Agitation">>

\* list[index] of JavaScript, as it appears in a string concatenation: an index
\* that is no element of the array gives undefined, printed "undefined"
NameAt(list, index) ==
    IF index \in 0..(Len(list) - 1) THEN list[index + 1] ELSE "undefined"

\* a character that a string of this module cannot hold, by its code point
Character(codePoint) == [codePoint |-> codePoint]

\* the character U+2019, RIGHT SINGLE QUOTATION MARK, of the literal "\u2019s "
RightSingleQuotationMark == Character(8217)

\* a + "\u2019s " + b: the text as the sequence of its pieces, the two names,
\* the quotation mark and the "s " after it
JoinNames(a, b) == <<a, RightSingleQuotationMark, "s ", b>>

\* a year argument: a number, or left out
NumberArg(v) == [t |-> "number", v |-> v]
Undefined == [t |-> "undefined"]

\* the mutant of getCurrentYearFromSS: year 1 when the host has no current date
getCurrentYearOrFirst(current) ==
    IF current = NoDate THEN NumberArg(1) ELSE NumberArg(current.year)

\* typeof date?.year === 'number' ? date.year : null
getCurrentYearFromSS(current) ==
    IF current = NoDate THEN Null ELSE NumberArg(current.year)

\* a year argument that is NaN, Infinity or -Infinity: typeof gives 'number'
NonFiniteArg(k) == [t |-> "nonfinite", v |-> k]
NonFiniteValues == {"NaN", "Infinity", "-Infinity"}

\* k - 1, k / 77, Math.floor(k) and k + 1 of a non-finite k: NaN stays NaN and
\* an infinity stays the same infinity
NonFiniteShifted(k) == k

\* k % n of a non-finite k, and every further operation on it: NaN
NonFiniteRem(k) == "NaN"

\* the record of a non-finite year: list[NaN] is undefined
NonFiniteYearInfo(k) ==
    LET kingsAge == NonFiniteShifted(NonFiniteShifted(NonFiniteShifted(
                        NonFiniteShifted(k))))
        yearInAge == NonFiniteShifted(NonFiniteRem(NonFiniteShifted(k)))
        yearName == JoinNames("undefined", "undefined")
    IN  [year |-> k, kingsAge |-> kingsAge, yearInAge |-> yearInAge,
         yearName |-> yearName]

getYearInfo(year, current) ==
    LET y == IF year.t \in {"number", "nonfinite"} THEN year
             ELSE getCurrentYearFromSS(current)
    IN  IF y = Null THEN Null
        ELSE IF y.t = "nonfinite" THEN NonFiniteYearInfo(y.v)
        ELSE LET kingsAge == FloorDiv(y.v - 1, KingsAgeLength) + 1
                 yearInAge == JsRem(y.v - 1, KingsAgeLength) + 1
                 endleanIndex == JsRem(yearInAge - 1, Len(endlean))
                 seofeanIndex == JsRem(yearInAge - 1, Len(seofean))
                 yearName == JoinNames(NameAt(endlean, endleanIndex),
                                       NameAt(seofean, seofeanIndex))
             IN  [year |-> y.v, kingsAge |-> kingsAge, yearInAge |-> yearInAge,
                  yearName |-> yearName]

\* the years asked for: around year 1 on both sides, and the documented year
EraYears == ((-YearSpan)..YearSpan) \cup {DocumentedYear}

EraRequests ==
    {[op |-> "getYearInfo", year |-> NumberArg(y)] : y \in EraYears}
    \cup {[op |-> "getYearInfo", year |-> Undefined]}
    \cup {[op |-> "getYearInfo", year |-> NonFiniteArg(k)] : k \in NonFiniteValues}

\* the current date of the host: none, or a date in the model's years
EraCurrentDates ==
    {NoDate} \cup {[year |-> y, month |-> 1, day |-> 1] : y \in 1..MaxYear}

\* getYearInfo reads no calendar
InitEra ==
    /\ cal = [months |-> <<>>, intercalary |-> <<>>, moons |-> <<>>]
    /\ now \in EraCurrentDates
    /\ req \in EraRequests
    /\ res = Pending
    /\ pc = "call"

CallGetYearInfo ==
    /\ pc = "call"
    /\ req.op = "getYearInfo"
    /\ res' = getYearInfo(req.year, now)
    /\ pc' = "done"
    /\ UNCHANGED <<cal, now, req>>

NextEra == CallGetYearInfo

SpecEra == InitEra /\ [][NextEra]_vars

----------------------------------------------------------------------------
(* Claims about getYearInfo, checked under SpecEra *)

YearInfoDone == pc = "done" /\ req.op = "getYearInfo" /\ req.year.t = "number"

\* C5: getYearInfo(14656) returns King's Age 190 and year-in-age 27.
C5_DocumentedYear ==
    (YearInfoDone /\ req.year.v = DocumentedYear)
        => res.kingsAge = 190 /\ res.yearInAge = 27

\* C6: for every integer year y, y <= 0 included, getYearInfo(y) returns
\* eraIndex = floor((y-1)/77)+1 and yearInEra = ((y-1) mod 77)+1 with the
\* non-negative modulo, so that yearInEra is in 1..77.
C6_EuclideanYearInAge ==
    YearInfoDone =>
        /\ res.kingsAge = ((req.year.v - 1) \div KingsAgeLength) + 1
        /\ res.yearInAge = ((req.year.v - 1) % KingsAgeLength) + 1
        /\ res.yearInAge \in 1..KingsAgeLength

\* C7: for every year y, getYearInfo(y + 77) has the yearInEra and the eraName
\* of getYearInfo(y), and an eraIndex greater by exactly 1.
C7_EraPeriodicity ==
    YearInfoDone =>
        LET later == getYearInfo(NumberArg(req.year.v + KingsAgeLength), now)
        IN  /\ later.yearInAge = res.yearInAge
            /\ later.yearName = res.yearName
            /\ later.kingsAge = res.kingsAge + 1

\* the character U+0027, APOSTROPHE
Apostrophe == Character(39)

\* C8: the era name is the entry of the 11-name list at (yearInEra-1) mod 11,
\* then "'s " (an apostrophe, U+0027, and "s "), then the entry of the 7-name
\* list at (yearInEra-1) mod 7; both indices are within their list, so no
\* part of the name is an undefined entry.
C8_EraNameInBounds ==
    YearInfoDone =>
        LET i11 == JsRem(res.yearInAge - 1, Len(endlean))
            i7 == JsRem(res.yearInAge - 1, Len(seofean))
        IN  /\ i11 \in 0..(Len(endlean) - 1)
            /\ i7 \in 0..(Len(seofean) - 1)
            /\ res.yearName = <<endlean[i11 + 1], Apostrophe, "s ", seofean[i7 + 1]>>

\* C19: getYearInfo called with a year that is not finite (NaN, Infinity,
\* -Infinity) returns null, not a record computed from that value.
C19_NonFiniteYearGivesNull ==
    (pc = "done" /\ req.op = "getYearInfo" /\ req.year.t = "nonfinite") =>
        res = Null

----------------------------------------------------------------------------
(* The eclipse and conjunction functions called by the host *)

\* the days the requests of the event functions are about: the first
\* EventSpan days of the calendar
EventSpan == 6

\* the first and the last reference date of a month structure
EarliestRef(st) ==
    CHOOSE x \in RefDates(st) : \A y \in RefDates(st) :
        toAbsoluteDay(st, makeDate0(x)) <= toAbsoluteDay(st, makeDate0(y))

LatestRef(st) ==
    CHOOSE x \in RefDates(st) : \A y \in RefDates(st) :
        toAbsoluteDay(st, makeDate0(y)) <= toAbsoluteDay(st, makeDate0(x))

\* the cycle lengths of the two moons: equal cycles, cycles that are New
\* together once in 35 days, a moon that is never Full, cycles whose positions
\* are 45 and 40 degrees a day
CyclePairs == {<<4, 4>>, <<5, 7>>, <<1, 2>>, <<8, 9>>}

\* cycles of 56 and 63 days with reference new moons 27 and 31 days after the
\* first day of the calendar
LongCycleMoons(st) ==
    <<Moon("Ral", 56, WireDate(fromAbsoluteDay(st, 27))),
      Moon("Guthay", 63, WireDate(fromAbsoluteDay(st, 31)))>>

EventMoonLists(st) ==
    {<<Moon("Ral", 4, r)>> : r \in {EarliestRef(st), LatestRef(st)}}
    \cup {<<Moon("Ral", p[1], r), Moon("Guthay", p[2], EarliestRef(st))>> :
             p \in CyclePairs, r \in {EarliestRef(st), LatestRef(st)}}
    \cup {LongCycleMoons(st)}

EventCalendars ==
    UNION {{[months |-> st.months, intercalary |-> st.intercalary, moons |-> ms] :
               ms \in EventMoonLists(st)} : st \in MoonStructures}

\* host dates of the first EventSpan days, intercalary days included
EventDates(st) == {WireDate(fromAbsoluteDay(st, a)) : a \in 0..(EventSpan - 1)}

EventRequests(calendar) ==
    {[op |-> o, from |-> f, to |-> t] :
        o \in {"getEclipses", "getConjunctions"},
        f \in EventDates(calendar), t \in EventDates(calendar)}
    \cup {[op |-> o, from |-> f] :
             o \in {"getNextBrightest", "getNextDarkest"},
             f \in EventDates(calendar) \cup {NoDate}}
    \cup {[op |-> o, date |-> d] :
             o \in {"getEclipseInfo", "getConjunctionInfo"},
             d \in EventDates(calendar)}
    \cup {[op |-> "/eclipse", parameters |-> p] : p \in {"", "next", "prev"}}

\* the host has a current date: the second day of the calendar
InitEvents ==
    /\ cal \in EventCalendars
    /\ now = WireDate(fromAbsoluteDay(cal, 1))
    /\ req \in EventRequests(cal)
    /\ res = Pending
    /\ pc = "call"

CallGetConjunctions ==
    /\ pc = "call"
    /\ req.op = "getConjunctions"
    /\ res' = [matches |-> getConjunctions(cal, now, req.from, req.to)]
    /\ pc' = "done"
    /\ UNCHANGED <<cal, now, req>>

CallGetNextBrightest ==
    /\ pc = "call"
    /\ req.op = "getNextBrightest"
    /\ res' = [found |-> getNextBrightest(cal, now, req.from)]
    /\ pc' = "done"
    /\ UNCHANGED <<cal, now, req>>

CallGetNextDarkest ==
    /\ pc = "call"
    /\ req.op = "getNextDarkest"
    /\ res' = [found |-> getNextDarkest(cal, now, req.from)]
    /\ pc' = "done"
    /\ UNCHANGED <<cal, now, req>>

CallGetEclipseInfo ==
    /\ pc = "call"
    /\ req.op = "getEclipseInfo"
    /\ res' = [info |-> getEclipseInfo(cal, now, req.date)]
    /\ pc' = "done"
    /\ UNCHANGED <<cal, now, req>>

CallGetConjunctionInfo ==
    /\ pc = "call"
    /\ req.op = "getConjunctionInfo"
    /\ res' = [info |-> getConjunctionInfo(cal, now, req.date, DefaultTolDeg)]
    /\ pc' = "done"
    /\ UNCHANGED <<cal, now, req>>

CallEclipseCommand ==
    /\ pc = "call"
    /\ req.op = "/eclipse"
    /\ res' = eclipseCommand(cal, now, req.parameters)
    /\ pc' = "done"
    /\ UNCHANGED <<cal, now, req>>

NextEvents ==
    \/ CallGetEclipses
    \/ CallGetConjunctions
    \/ CallGetNextBrightest
    \/ CallGetNextDarkest
    \/ CallGetEclipseInfo
    \/ CallGetConjunctionInfo
    \/ CallEclipseCommand

SpecEvents == InitEvents /\ [][NextEvents]_vars

----------------------------------------------------------------------------
(* Claims about eclipses and conjunctions, checked under SpecEvents *)

RangeDone == pc = "done" /\ req.op \in {"getEclipses", "getConjunctions"}

\* the absolute day of a host date
AbsOf(calendar, date) == toAbsoluteDay(calendar, makeDate0(date))

\* the host date of an absolute day
DateOf(calendar, abs) == WireDate(fromAbsoluteDay(calendar, abs))

RangeLo == IF AbsOf(cal, req.from) <= AbsOf(cal, req.to)
           THEN AbsOf(cal, req.from) ELSE AbsOf(cal, req.to)

RangeHi == IF AbsOf(cal, req.from) <= AbsOf(cal, req.to)
           THEN AbsOf(cal, req.to) ELSE AbsOf(cal, req.from)

\* the moons that yield a record: those with a positive cycle length
RecordMoons(calendar) == SelectSeq(calendar.moons, LAMBDA m : m.cycleLength > 0)

\* the age of moon m on an absolute day: the days since its reference new
\* moon, modulo its cycle length
AgeOn(calendar, m, abs) == (abs - RefAbs(calendar, m)) % m.cycleLength

\* the fraction model's New Moon and Full Moon: age / cycle in [0, 1/8) and
\* in [1/2, 5/8)
IsNewOn(calendar, m, abs) == 8 * AgeOn(calendar, m, abs) < m.cycleLength

IsFullOn(calendar, m, abs) ==
    /\ 4 * m.cycleLength <= 8 * AgeOn(calendar, m, abs)
    /\ 8 * AgeOn(calendar, m, abs) < 5 * m.cycleLength

\* the eclipse of an absolute day: "Darkest", "Brightest" or "none"
EclipseKind(calendar, abs) ==
    LET ms == RecordMoons(calendar)
    IN  IF Len(ms) < 2 THEN "none"
        ELSE IF \A i \in 1..Len(ms) : IsNewOn(calendar, ms[i], abs) THEN "Darkest"
        ELSE IF \A i \in 1..Len(ms) : IsFullOn(calendar, ms[i], abs) THEN "Brightest"
        ELSE "none"

\* C11: a day is reported as an eclipse if and only if the calendar yields at
\* least 2 moon records for it and either every record is New (type
\* 'Darkest') or every record is Full (type 'Brightest'), by the range scan,
\* by the eclipse of one date and by the search for the next eclipse; a
\* calendar that yields fewer than 2 records never reports an eclipse.
C11_EclipseIffAllNewOrAllFull ==
    /\ (pc = "done" /\ req.op = "getEclipses") =>
          \A abs \in RangeLo..RangeHi :
              LET kind == EclipseKind(cal, abs)
                  at == {j \in 1..Len(res.matches) :
                            res.matches[j].date = DateOf(cal, abs)}
              IN  /\ (kind # "none") <=> (at # {})
                  /\ \A j \in at : res.matches[j].type = kind
    /\ (pc = "done" /\ req.op = "getEclipseInfo") =>
          LET kind == EclipseKind(cal, AbsOf(cal, req.date))
          IN  /\ (kind = "none") <=> (res.info = Null)
              /\ (kind = "Darkest") <=> (res.info = [type |-> "Darkest (both New)"])
              /\ (kind = "Brightest")
                    <=> (res.info = [type |-> "Brightest (both Full)"])
    /\ (pc = "done" /\ req.op \in {"getNextBrightest", "getNextDarkest"}
            /\ res.found # Null) =>
          EclipseKind(cal, AbsOf(cal, res.found.date)) = res.found.type
    /\ (pc = "done" /\ Len(RecordMoons(cal)) < 2) =>
          /\ req.op = "getEclipses" => res.matches = <<>>
          /\ req.op = "getEclipseInfo" => res.info = Null
          /\ req.op \in {"getNextBrightest", "getNextDarkest"} => res.found = Null

\* two moons of different cycles, scanned over a range that holds a day both
\* are New on and a day only one of them is New on
C11_Witness ==
    /\ pc = "done" /\ req.op = "getEclipses"
    /\ Len(cal.moons) = 2
    /\ cal.moons[1].cycleLength # cal.moons[2].cycleLength
    /\ \E j \in 1..Len(res.matches) : res.matches[j].type = "Darkest"
    /\ \E abs \in RangeLo..RangeHi :
          /\ EclipseKind(cal, abs) = "none"
          /\ IsNewOn(cal, cal.moons[1], abs)
          /\ ~IsNewOn(cal, cal.moons[2], abs)

\* the two moons the conjunction is about: 'Ral' and 'Guthay', or else the
\* first and the second moon that yield a record
ChosenMoon(calendar, name, index) ==
    LET ms == RecordMoons(calendar)
        named == {i \in 1..Len(ms) : ms[i].name = name}
    IN  IF named # {} THEN ms[CHOOSE i \in named : \A j \in named : i <= j]
        ELSE ms[index]

\* the angular separation min(|a-b|, 360-|a-b|) of the two chosen moons on
\* an absolute day, a = 360*age/cycleLength, as the fraction num / den
SeparationOn(calendar, abs) ==
    LET r == ChosenMoon(calendar, "Ral", 1)
        g == ChosenMoon(calendar, "Guthay", 2)
        den == r.cycleLength * g.cycleLength
        diff == 360 * Abs(AgeOn(calendar, r, abs) * g.cycleLength
                          - AgeOn(calendar, g, abs) * r.cycleLength)
    IN  [num |-> IF diff > 180 * den THEN 360 * den - diff ELSE diff, den |-> den]

\* the separation of the day is within the tolerance of tolDeg degrees
WithinTolerance(calendar, abs, tolDeg) ==
    /\ Len(RecordMoons(calendar)) >= 2
    /\ SeparationOn(calendar, abs).num <= tolDeg * SeparationOn(calendar, abs).den

\* C12: a day is reported as a conjunction if and only if the angular
\* separation min(|a-b|, 360-|a-b|) of the two chosen moons, a =
\* 360*age/cycleLength, is <= 5 degrees: a separation of exactly 5 is
\* included, one above 5 is excluded, and the separation reported is in
\* [0, 180].
C12_ConjunctionIffWithinTolerance ==
    /\ (pc = "done" /\ req.op = "getConjunctions") =>
          /\ \A abs \in RangeLo..RangeHi :
                WithinTolerance(cal, abs, DefaultTolDeg)
                    <=> \E j \in 1..Len(res.matches) :
                            res.matches[j].date = DateOf(cal, abs)
          /\ \A j \in 1..Len(res.matches) :
                ~DblLess(FromInt(180), res.matches[j].sepDeg)
    /\ (pc = "done" /\ req.op = "getConjunctionInfo") =>
          /\ WithinTolerance(cal, AbsOf(cal, req.date), DefaultTolDeg)
                <=> (res.info # Null)
          /\ res.info # Null => ~DblLess(FromInt(180), res.info.sepDeg)

\* the day is a match of the range function asked for, by the function that
\* answers for one date
MatchingDay(abs) ==
    IF req.op = "getEclipses"
    THEN getEclipseInfo(cal, now, DateOf(cal, abs)) # Null
    ELSE getConjunctionInfo(cal, now, DateOf(cal, abs), DefaultTolDeg) # Null

\* the same call with its two arguments swapped
SwappedRange ==
    IF req.op = "getEclipses" THEN getEclipses(cal, now, req.to, req.from)
    ELSE getConjunctions(cal, now, req.to, req.from)

\* C13: getEclipses(from, to) and getConjunctions(from, to) return every
\* matching day d with min(from, to) <= d <= max(from, to), both ends
\* included, each once, and no day outside the range; the call with the two
\* arguments swapped returns the same list.
C13_RangeInclusiveAndSymmetric ==
    RangeDone =>
        /\ \A j \in 1..Len(res.matches) :
              /\ AbsOf(cal, res.matches[j].date) \in RangeLo..RangeHi
              /\ MatchingDay(AbsOf(cal, res.matches[j].date))
        /\ \A abs \in RangeLo..RangeHi :
              MatchingDay(abs) =>
                  Cardinality({j \in 1..Len(res.matches) :
                                  res.matches[j].date = DateOf(cal, abs)}) = 1
        /\ SwappedRange = res.matches

\* a range given with its later end first, with a match on each end
C13_Witness ==
    /\ RangeDone
    /\ AbsOf(cal, req.to) + 1 < AbsOf(cal, req.from)
    /\ Len(res.matches) >= 2
    /\ res.matches[1].date = req.to
    /\ res.matches[Len(res.matches)].date = req.from
    /\ \E abs \in RangeLo..RangeHi : ~MatchingDay(abs)

NextDone == pc = "done" /\ req.op \in {"getNextBrightest", "getNextDarkest"}

\* the type of eclipse the search is for
NextType == IF req.op = "getNextBrightest" THEN "Brightest" ELSE "Darkest"

\* the date the search starts from: the argument, or else the current date
NextStart == IF req.from # NoDate THEN req.from ELSE now

\* the last day the search examines
NextEnd == AbsOf(cal, NextStart) + LandmarkMaxScan(cal, LandmarkMaxYears)

\* C14: getNextBrightest(from) / getNextDarkest(from) return the earliest day
\* at or after `from`, `from` itself included, on which all moons are Full /
\* all are New: no day between `from` and the day returned is such a day;
\* they return null when no day within the horizon is one.  The result is the
\* first entry of that type that getEclipses returns for the range that
\* starts at `from`.
C14_NextIsEarliest ==
    NextDone =>
        LET start == AbsOf(cal, NextStart)
            ofType == MatchesOfType(
                          getEclipses(cal, now, NextStart, DateOf(cal, NextEnd)),
                          NextType)
        IN  /\ res.found # Null =>
                  /\ res.found.type = NextType
                  /\ AbsOf(cal, res.found.date) \in start..NextEnd
                  /\ res.found.date = DateOf(cal, AbsOf(cal, res.found.date))
                  /\ EclipseKind(cal, AbsOf(cal, res.found.date)) = NextType
                  /\ \A abs \in start..(AbsOf(cal, res.found.date) - 1) :
                        EclipseKind(cal, abs) # NextType
                  /\ ofType # <<>>
                  /\ res.found.date = ofType[1].date
            /\ res.found = Null =>
                  /\ \A abs \in start..NextEnd : EclipseKind(cal, abs) # NextType
                  /\ ofType = <<>>

\* the search for the next Brightest starts on a day both moons are Full on
\* and returns that day
C14_Witness ==
    /\ NextDone
    /\ req.op = "getNextBrightest"
    /\ req.from # NoDate
    /\ res.found # Null
    /\ res.found.date = req.from
    /\ EclipseKind(cal, AbsOf(cal, req.from) + 1) = "none"

\* the number of days a horizon of 10 years covers
HorizonDays(calendar) == 10 * buildCalendarMeta(calendar).daysPerYear

\* the days between the start day and the day a search has returned
DaysAway(calendar, startAbs, foundAbs) ==
    IF foundAbs >= startAbs THEN foundAbs - startAbs ELSE startAbs - foundAbs

\* C15: the single-direction eclipse search (getNextBrightest, getNextDarkest,
\* /eclipse next and /eclipse previous) has a horizon of 10 years: it returns
\* no day that is more than 10 x daysPerYear days away from the start day, and
\* it reports no match when the nearest matching day lies beyond that horizon.
C15_HorizonOfTenYears ==
    /\ (NextDone /\ res.found # Null) =>
           DaysAway(cal, AbsOf(cal, NextStart), AbsOf(cal, res.found.date))
               <= HorizonDays(cal)
    /\ (pc = "done" /\ req.op = "/eclipse" /\ res.content = "Eclipse window:") =>
           DaysAway(cal, AbsOf(cal, now), toAbsoluteDay(cal, res.date))
               <= HorizonDays(cal)

----------------------------------------------------------------------------
(* The chat commands that take a date *)

RECURSIVE Decimal(_)
\* the decimal digits of a natural number
Decimal(n) ==
    IF n < 10 THEN <<DigitChars[n + 1]>>
    ELSE Decimal(n \div 10) \o <<DigitChars[(n % 10) + 1]>>

\* the text Y-M-D
FormatYMD(y, m, d) == Decimal(y) \o <<"-">> \o Decimal(m) \o <<"-">> \o Decimal(d)

\* calendars of two months and one of three months
ChatStructures ==
    MoonStructures
    \cup {[months |-> MonthsOf(<<2, 1, 2>>),
           intercalary |-> <<[after |-> "Bloom", days |-> 2]>>]}

ChatMoonLists(st) ==
    {<<Moon("Ral", 4, EarliestRef(st))>>,
     <<Moon("Ral", 5, LatestRef(st)), Moon("Guthay", 7, EarliestRef(st))>>}

ChatCalendars ==
    UNION {{[months |-> st.months, intercalary |-> st.intercalary, moons |-> ms] :
               ms \in ChatMoonLists(st)} : st \in ChatStructures}

\* the months written in a date argument: 1..MaxChatMonth
MaxChatMonth == 3

\* what follows the command: nothing, a date Y-M-D, or a text that is no date
ChatParameters ==
    {FormatYMD(y, m, d) : y \in 1..MaxYear, m \in 1..MaxChatMonth,
                          d \in 1..(MaxMonthDays + 1)}
    \cup {<<>>, <<"x">>, <<"1", "-", "2">>, <<"1", "-", "1", "2", "3", "-", "1">>,
          <<"1", "-", "2", "-", "x">>}

ChatRequests ==
    {[op |-> o, parameters |-> p] : o \in {"/doy", "/abs", "/moons"},
                                    p \in ChatParameters}

InitChat ==
    /\ cal \in ChatCalendars \cup {NoCalendar}
    /\ now \in CurrentDates
    /\ req \in ChatRequests
    /\ res = Pending
    /\ pc = "call"

CallDoyCommand ==
    /\ pc = "call"
    /\ req.op = "/doy"
    /\ res' = doyCommand(cal, now, req.parameters)
    /\ pc' = "done"
    /\ UNCHANGED <<cal, now, req>>

CallAbsCommand ==
    /\ pc = "call"
    /\ req.op = "/abs"
    /\ res' = absCommand(cal, now, req.parameters)
    /\ pc' = "done"
    /\ UNCHANGED <<cal, now, req>>

CallMoonsCommand ==
    /\ pc = "call"
    /\ req.op = "/moons"
    /\ res' = moonsCommand(cal, now, req.parameters)
    /\ pc' = "done"
    /\ UNCHANGED <<cal, now, req>>

NextChat == CallDoyCommand \/ CallAbsCommand \/ CallMoonsCommand

SpecChat == InitChat /\ [][NextChat]_vars

----------------------------------------------------------------------------
(* Claims about the chat commands, checked under SpecChat *)

\* C16: for a chat command with a date argument Y-M-D the month M becomes the
\* index M-1 exactly once: /doy reports monthStarts[M-1] + D, /abs reports
\* (Y-1)*daysPerYear + monthStarts[M-1] + D - 1 and /moons reports the phases of
\* month index M-1, for every M in 1..monthCount.
C16_MonthNormalizedOnce ==
    (pc = "done" /\ cal # NoCalendar) =>
        \A y \in 1..MaxYear, m \in 1..Len(cal.months), d \in 1..(MaxMonthDays + 1) :
            req.parameters = FormatYMD(y, m, d) =>
                LET meta == buildCalendarMeta(cal)
                    \* monthStarts[M-1] of the code
                    start == meta.monthStarts[m]
                IN  /\ req.op = "/doy" => res.value = start + d
                    /\ req.op = "/abs" =>
                           res.value = (y - 1) * meta.daysPerYear + start + d - 1
                    /\ req.op = "/moons" =>
                           /\ res.date = [year |-> y, month |-> m - 1, day |-> d]
                           /\ res.phases =
                                  getAthasMoonPhases(cal, now,
                                      [year |-> y, month |-> m, day |-> d])

----------------------------------------------------------------------------
(* The segment model with moons that cannot have a phase *)

\* a moon is configured with a cycle length that may be 0 or negative and a
\* list of phase segments that may be empty
SkipMoons(st, n) ==
    {[name |-> n, cycleLength |-> c, firstNewMoon |-> EarliestRef(st),
      phases |-> ph] :
        c \in {-1, 0, MaxCycle}, ph \in {<<>>, SegmentsOf(MaxCycle)}}

\* one moon or two
SkipMoonLists(st) ==
    {<<m>> : m \in SkipMoons(st, "Ral")}
    \cup {<<m1, m2>> : m1 \in SkipMoons(st, "Ral"), m2 \in SkipMoons(st, "Guthay")}

SkipCalendars ==
    UNION {{[months |-> st.months, intercalary |-> st.intercalary, moons |-> ms] :
               ms \in SkipMoonLists(st)} : st \in MoonStructures}

\* dates with a 0-based month, as the engine takes them
SkipDates(st) ==
    {makeDate0(d) : d \in {h \in HostDates(st) : h.day <= MaxMonthDays}}

SkipRequests(calendar) ==
    {[op |-> "getMoonPhasesForDate", date |-> d] : d \in SkipDates(calendar)}
    \cup {[op |-> "computeMoonPhase", date |-> d, moon |-> k] :
             d \in SkipDates(calendar), k \in 1..Len(calendar.moons)}

InitSkip ==
    /\ cal \in SkipCalendars
    /\ now = NoDate
    /\ req \in SkipRequests(cal)
    /\ res = Pending
    /\ pc = "call"

\* computeMoonPhase for the moon at position req.moon of the calendar
CallComputeMoonPhase ==
    /\ pc = "call"
    /\ req.op = "computeMoonPhase"
    /\ res' = [record |-> computeMoonPhase(cal, req.date, cal.moons[req.moon])]
    /\ pc' = "done"
    /\ UNCHANGED <<cal, now, req>>

NextSkip == CallComputeMoonPhase \/ CallGetMoonPhasesForDate

SpecSkip == InitSkip /\ [][NextSkip]_vars

----------------------------------------------------------------------------
(* Claims about moons that are skipped, checked under SpecSkip *)

\* a moon the engine has to skip
Degenerate(moon) == moon.cycleLength <= 0 \/ moon.phases = <<>>

\* C17: a moon whose cycleLength is <= 0 or whose list of phase segments is
\* empty is skipped: computeMoonPhase produces no record for it and
\* getMoonPhasesForDate leaves it out, while the records of the other moons are
\* produced in the order the calendar declares the moons in.
C17_DegenerateMoonSkipped ==
    /\ (pc = "done" /\ req.op = "computeMoonPhase") =>
           (Degenerate(cal.moons[req.moon]) <=> res.record = Null)
    /\ (pc = "done" /\ req.op = "getMoonPhasesForDate") =>
           LET kept == SelectSeq(cal.moons, LAMBDA m : ~Degenerate(m))
           IN  /\ Len(res.phases) = Len(kept)
               /\ \A i \in 1..Len(kept) :
                      res.phases[i] = computeMoonPhase(cal, req.date, kept[i])

----------------------------------------------------------------------------
(* The functions called by a host without a calendar or a current date *)

\* the host has an active calendar or none
AbsentCalendars == EventCalendars \cup {NoCalendar}

\* the host has a current date or none
AbsentCurrentDates ==
    {NoDate} \cup {[year |-> y, month |-> m, day |-> d] :
                      y \in 1..MaxYear, m \in 1..2, d \in 1..2}

\* a date argument: left out, or the first day of the calendar
AbsentArgs == {NoDate, [year |-> 1, month |-> 1, day |-> 1]}

AbsentRequests ==
    {[op |-> "getYearInfo", year |-> Undefined]}
    \cup {[op |-> "getMoonPhases", date |-> d] : d \in AbsentArgs}
    \cup {[op |-> o, from |-> f, to |-> t] :
             o \in {"getConjunctions", "getEclipses"},
             f \in AbsentArgs, t \in AbsentArgs}
    \cup {[op |-> o, from |-> f] :
             o \in {"getNextBrightest", "getNextDarkest"}, f \in AbsentArgs}

InitAbsent ==
    /\ cal \in AbsentCalendars
    /\ now \in AbsentCurrentDates
    /\ req \in AbsentRequests
    /\ res = Pending
    /\ pc = "call"

NextAbsent ==
    \/ CallGetYearInfo
    \/ CallGetMoonPhases
    \/ CallGetConjunctions
    \/ CallGetEclipses
    \/ CallGetNextBrightest
    \/ CallGetNextDarkest

SpecAbsent == InitAbsent /\ [][NextAbsent]_vars

----------------------------------------------------------------------------
(* Claims about a missing calendar or current date, checked under SpecAbsent *)

\* the call has no argument
NoArgument ==
    CASE req.op = "getYearInfo" -> req.year = Undefined
      [] req.op = "getMoonPhases" -> req.date = NoDate
      [] req.op \in {"getConjunctions", "getEclipses"} ->
             req.from = NoDate /\ req.to = NoDate
      [] req.op \in {"getNextBrightest", "getNextDarkest"} -> req.from = NoDate

\* the list functions returned [] and the search functions returned null
OthersReportAbsence ==
    /\ req.op = "getMoonPhases" => res.phases = <<>>
    /\ req.op \in {"getConjunctions", "getEclipses"} => res.matches = <<>>
    /\ req.op \in {"getNextBrightest", "getNextDarkest"} => res.found = Null

\* C18: when the host has no calendar or no current date, every function of
\* the API called without arguments reports absence: getYearInfo() returns
\* null, getMoonPhases(), getConjunctions() and getEclipses() return an empty
\* list, getNextBrightest() and getNextDarkest() return null.
C18_AbsenceReported ==
    (pc = "done" /\ NoArgument /\ (cal = NoCalendar \/ now = NoDate)) =>
        /\ req.op = "getYearInfo" => res = Null
        /\ OthersReportAbsence

\* C18 as amended: getYearInfo() reads no calendar; it returns null exactly
\* when the host has no current date, and the record of the current year
\* otherwise.  The other functions report absence when the calendar or the
\* current date is missing, and without a calendar they do so whatever the
\* arguments are.
C18_AbsenceExceptYearInfo ==
    /\ (pc = "done" /\ NoArgument) =>
           /\ req.op = "getYearInfo" =>
                  IF now = NoDate THEN res = Null
                  ELSE res = getYearInfo(NumberArg(now.year), NoDate)
           /\ (cal = NoCalendar \/ now = NoDate) => OthersReportAbsence
    /\ (pc = "done" /\ cal = NoCalendar /\ req.op # "getYearInfo") =>
           OthersReportAbsence

\* getYearInfo() was called without a calendar and with a current date
C18_Witness ==
    /\ pc = "done"
    /\ req.op = "getYearInfo"
    /\ cal = NoCalendar
    /\ now # NoDate
    /\ res # Null
    /\ res.year = now.year

----------------------------------------------------------------------------
(* The season of a month *)

\* the months of the year the seasons are declared over: 1..MaxSeasonMonth
MaxSeasonMonth == 12

SeasonNames == <<"High Sun", "Sun Descending">>

\* the first season has any range; the second one lies inside the year,
\* wraps around the end of the year, or is the range the first may also have
SecondSeasons ==
    {[name |-> SeasonNames[2], startMonth |-> r[1], endMonth |-> r[2]] :
        r \in {<<3, 5>>, <<MaxSeasonMonth, 1>>, <<11, 2>>}}

SeasonLists ==
    LET first == {[name |-> SeasonNames[1], startMonth |-> a, endMonth |-> b] :
                     a \in 1..MaxSeasonMonth, b \in 1..MaxSeasonMonth}
    IN  {<<>>} \cup {<<s1>> : s1 \in first}
        \cup {<<s1, s2>> : s1 \in first, s2 \in SecondSeasons}

\* getSeasonName reads only the seasons of the calendar
SeasonCalendars ==
    {[months |-> <<>>, intercalary |-> <<>>, moons |-> <<>>, seasons |-> ss] :
        ss \in SeasonLists}
    \cup {[months |-> <<>>, intercalary |-> <<>>, moons |-> <<>>], NoCalendar}

InitSeason ==
    /\ cal \in SeasonCalendars
    /\ now = NoDate
    /\ req \in {[op |-> "getSeasonName", monthIndex |-> i] :
                   i \in 0..(MaxSeasonMonth - 1)}
    /\ res = Pending
    /\ pc = "call"

CallGetSeasonName ==
    /\ pc = "call"
    /\ req.op = "getSeasonName"
    /\ res' = [season |-> getSeasonName(cal, req.monthIndex)]
    /\ pc' = "done"
    /\ UNCHANGED <<cal, now, req>>

NextSeason == CallGetSeasonName

SpecSeason == InitSeason /\ [][NextSeason]_vars

----------------------------------------------------------------------------
(* Claims about the season of a month, checked under SpecSeason *)

SeasonDone == pc = "done" /\ req.op = "getSeasonName"

\* the months of a season: startMonth..endMonth, or from startMonth to the end
\* of the year and from the first month to endMonth
MonthsOfSeason(s) ==
    IF s.startMonth <= s.endMonth THEN s.startMonth..s.endMonth
    ELSE (s.startMonth..MaxSeasonMonth) \cup (1..s.endMonth)

\* C20: the season of a month is the first season whose range startMonth..
\* endMonth, both ends included, contains the 1-based month, where startMonth >
\* endMonth is a range around the end of the year: a season {startMonth 11,
\* endMonth 2} matches months 11, 12, 1 and 2 and no other month; a month that
\* no season contains gives null.
C20_FirstSeasonContainingMonth ==
    SeasonDone =>
        LET seasons == SeasonsOf(cal)
            m1 == req.monthIndex + 1
            matching == {i \in 1..Len(seasons) : m1 \in MonthsOfSeason(seasons[i])}
        IN  /\ IF matching = {} THEN res.season = NoName
               ELSE res.season =
                        Name(seasons[CHOOSE i \in matching :
                                         \A j \in matching : i <= j].name)
            /\ (Len(seasons) = 1 /\ seasons[1].startMonth = 11
                    /\ seasons[1].endMonth = 2 /\ m1 \in 1..12) =>
                   (res.season # NoName <=> m1 \in {11, 12, 1, 2})

\* month 1 lies in a first season that goes around the end of the year and in
\* the second season too; the first one is the answer
C20_Witness ==
    /\ SeasonDone
    /\ cal # NoCalendar
    /\ Len(SeasonsOf(cal)) = 2
    /\ cal.seasons[1].startMonth = 11
    /\ cal.seasons[1].endMonth = 2
    /\ req.monthIndex + 1 = 1
    /\ SeasonContains(cal.seasons[2], 1)
    /\ res.season = Name(cal.seasons[1].name)

----------------------------------------------------------------------------
(* buildCalendarMeta called on its own *)

\* months with a day count or without one
MetaMonthLists ==
    UNION {{[i \in 1..n |-> IF d[i] < 0 THEN [name |-> MonthNames[i]]
                            ELSE [name |-> MonthNames[i], days |-> d[i]]] :
                d \in [1..n -> (-1)..MaxMonthDays]} : n \in 1..MaxMonths}

\* blocks after a month of the calendar or after a month it does not have,
\* with a day count or without one
MetaBlocksFor(months) ==
    BlocksFor(months)
    \cup {[after |-> a] : a \in {months[i].name : i \in 1..Len(months)}}

MetaCalendars ==
    UNION {{[months |-> m, intercalary |-> ic, moons |-> <<>>] :
               ic \in SeqsUpTo(MetaBlocksFor(m), MaxBlocks)} : m \in MetaMonthLists}

InitMeta ==
    /\ cal \in MetaCalendars
    /\ now = NoDate
    /\ req = [op |-> "buildCalendarMeta"]
    /\ res = Pending
    /\ pc = "call"

CallBuildCalendarMeta ==
    /\ pc = "call"
    /\ req.op = "buildCalendarMeta"
    /\ res' = buildCalendarMeta(cal)
    /\ pc' = "done"
    /\ UNCHANGED <<cal, now, req>>

NextMeta == CallBuildCalendarMeta

SpecMeta == InitMeta /\ [][NextMeta]_vars

----------------------------------------------------------------------------
(* Claims about buildCalendarMeta, checked under SpecMeta *)

RECURSIVE SumOf(_, _)
\* the sum of f[i] over the indices i of S
SumOf(f, S) ==
    IF S = {} THEN 0
    ELSE LET i == CHOOSE x \in S : TRUE
         IN  f[i] + SumOf(f, S \ {i})

\* the days month j stands for: its own, and those of every block after it
DaysWithBlocks(calendar, j) ==
    DaysOrZero(calendar.months[j])
    + SumOf([k \in 1..Len(calendar.intercalary) |->
                DaysOrZero(calendar.intercalary[k])],
            {k \in 1..Len(calendar.intercalary) :
                calendar.intercalary[k].after = calendar.months[j].name})

\* C21: monthStarts[i] is the sum, over the months j before i, of the days of
\* month j and of every intercalary block after month j; daysPerYear is that
\* sum over all months.  Blocks after the same month are added up, a block
\* after a month the calendar does not have adds nothing, a missing day count
\* is 0; so monthStarts[0] = 0, monthStarts never decreases and no entry
\* exceeds daysPerYear.
C21_MonthStartsAreSums ==
    (pc = "done" /\ req.op = "buildCalendarMeta") =>
        LET n == Len(cal.months)
            days == [j \in 1..n |-> DaysWithBlocks(cal, j)]
        IN  /\ Len(res.monthStarts) = n
            /\ \A i \in 1..n : res.monthStarts[i] = SumOf(days, 1..(i - 1))
            /\ res.daysPerYear = SumOf(days, 1..n)
            /\ res.monthStarts[1] = 0
            /\ \A i \in 1..(n - 1) : res.monthStarts[i] <= res.monthStarts[i + 1]
            /\ \A i \in 1..n : res.monthStarts[i] <= res.daysPerYear

\* two blocks of 2 days after the first month: both are added to the start
\* of the second month
C21_Witness ==
    /\ pc = "done"
    /\ req.op = "buildCalendarMeta"
    /\ Len(cal.months) >= 2
    /\ Len(cal.intercalary) = 2
    /\ \A k \in 1..2 : cal.intercalary[k] = [after |-> cal.months[1].name, days |-> 2]
    /\ res.monthStarts[2] = DaysOrZero(cal.months[1]) + 4

----------------------------------------------------------------------------
(* Claims about the fraction model, checked under SpecMoon *)

\* getMoonPhases ran for a date or for the current date
FractionDone == pc = "done" /\ req.op = "getMoonPhases"

\* the eight names in the order of the eighths of the cycle
EighthNames ==
    <<"New Moon", "Waxing Crescent", "First Quarter", "Waxing Gibbous",
      "Full Moon", "Waning Gibbous", "Last Quarter", "Waning Crescent">>

\* C22: with frac = age/cycleLength the phase is New Moon for frac < 1/8,
\* Waxing Crescent for 1/8 <= frac < 1/4, ..., Last Quarter for
\* 3/4 <= frac < 7/8 and Waning Crescent otherwise: the name of the eighth of
\* the cycle the age lies in, the lower end of an eighth included.  Every age
\* in [0, cycleLength) gets exactly one of the eight names.
C22_PhaseNameOfEighth ==
    FractionDone =>
        \A i \in 1..Len(res.phases) :
            LET r == res.phases[i]
                \* k/8 <= age/cycleLength < (k+1)/8
                eighths == {k \in 0..7 : /\ k * r.cycleLength <= 8 * r.age
                                         /\ 8 * r.age < (k + 1) * r.cycleLength}
            IN  /\ r.age \in 0..(r.cycleLength - 1)
                /\ Cardinality(eighths) = 1
                /\ \A k \in eighths : r.phaseName = EighthNames[k + 1]

\* a moon of 8 days one day after New: frac is exactly 1/8, Waxing Crescent
C22_Witness ==
    /\ FractionDone
    /\ Len(res.phases) >= 1
    /\ res.phases[1].cycleLength = 8
    /\ res.phases[1].age = 1
    /\ res.phases[1].phaseName = "Waxing Crescent"

----------------------------------------------------------------------------
(* getAthasMoonPhases called on its own *)

\* one moon of every cycle length, or two moons
FractionMoonLists(st) ==
    {<<Moon("Ral", c, r)>> : c \in 1..MaxCycle, r \in {EarliestRef(st), LatestRef(st)}}
    \cup {<<Moon("Ral", 5, LatestRef(st)), Moon("Guthay", 7, EarliestRef(st))>>}

FractionCalendars ==
    UNION {{[months |-> st.months, intercalary |-> st.intercalary, moons |-> ms] :
               ms \in FractionMoonLists(st)} : st \in MoonStructures}

\* getAthasMoonPhases(date), or getAthasMoonPhases() without a date
FractionRequests(calendar) ==
    {[op |-> "getAthasMoonPhases", date |-> d] :
        d \in HostDates(calendar) \cup {NoDate}}

InitFraction ==
    /\ cal \in FractionCalendars
    /\ now \in CurrentDates
    /\ req \in FractionRequests(cal)
    /\ res = Pending
    /\ pc = "call"

\* the records of getAthasMoonPhases, and their day counts by position
CallGetAthasMoonPhases ==
    /\ pc = "call"
    /\ req.op = "getAthasMoonPhases"
    /\ LET phases == getAthasMoonPhases(cal, now, req.date)
           hasDate == req.date # NoDate \/ now # NoDate
       IN  res' = [phases |-> phases,
                   counts |-> [i \in 1..Len(phases) |-> DayCounts(phases[i], hasDate)]]
    /\ pc' = "done"
    /\ UNCHANGED <<cal, now, req>>

NextFraction == CallGetAthasMoonPhases

SpecFraction == InitFraction /\ [][NextFraction]_vars

----------------------------------------------------------------------------
(* Claims about getAthasMoonPhases, checked under SpecFraction *)

\* getAthasMoonPhases ran for a date, its argument or the current date
AthasDone ==
    /\ pc = "done"
    /\ req.op = "getAthasMoonPhases"
    /\ (req.date # NoDate \/ now # NoDate)

\* C23: daysUntilNew is 0 on the day of New (age 0) and otherwise the ceiling
\* of the days that remain to the end of the cycle; daysUntilFull is 0 at
\* exactly half the cycle and otherwise the ceiling of the days forward to
\* half the cycle, through the end of the cycle when Full is past; both are in
\* [0, cycleLength].
C23_DayCountsAreCeilings ==
    AthasDone =>
        \A i \in 1..Len(res.phases) :
            LET a == res.phases[i].age
                c == res.phases[i].cycleLength
                \* twice the days forward to half the cycle
                twice == IF 2 * a <= c THEN c - 2 * a ELSE 3 * c - 2 * a
            IN  /\ res.counts[i].daysUntilNew = (IF a = 0 THEN 0 ELSE c - a)
                /\ res.counts[i].daysUntilFull = (twice + 1) \div 2
                /\ res.counts[i].daysUntilNew \in 0..c
                /\ res.counts[i].daysUntilFull \in 0..c

----------------------------------------------------------------------------
(* Claims about the segment model, checked under SpecMoon *)

SegmentDone == pc = "done" /\ req.op = "getMoonPhasesForDate"

\* the lengths of the segments of a moon, by position
LengthsOf(moon) == [k \in 1..Len(moon.phases) |-> moon.phases[k].length]

\* the days of the cycle before segment k
SegmentStartOf(moon, k) == SumOf(LengthsOf(moon), 1..(k - 1))

\* every segment has a positive length and the lengths add up to the cycle
PositiveAndComplete(moon) ==
    /\ \A k \in 1..Len(moon.phases) : moon.phases[k].length > 0
    /\ SumOf(LengthsOf(moon), 1..Len(moon.phases)) = moon.cycleLength

\* C24: when the segment lengths are positive and add up to cycleLength, the
\* current segment is the only segment i with
\* sum(length[0..i-1]) <= age < sum(length[0..i]), and the offset within it is
\* age - sum(length[0..i-1]), which lies in [0, length[i]).
C24_SegmentOfAge ==
    SegmentDone =>
        /\ Len(res.phases) = Len(cal.moons)
        /\ \A n \in 1..Len(cal.moons) :
              LET moon == cal.moons[n]
                  r == res.phases[n]
                  holding == {k \in 1..Len(moon.phases) :
                                 /\ SegmentStartOf(moon, k) <= r.age
                                 /\ r.age < SegmentStartOf(moon, k + 1)}
                  found == FindSegment(moon.phases, r.age, 0, 0)
              IN  PositiveAndComplete(moon) =>
                      /\ Cardinality(holding) = 1
                      /\ \A k \in holding :
                            /\ r.phaseIndex = k - 1
                            /\ r.phaseName = moon.phases[k].name
                            /\ found.phaseIndex = k - 1
                            /\ found.segmentStart = SegmentStartOf(moon, k)
                            /\ r.age - found.segmentStart
                                   \in 0..(moon.phases[k].length - 1)

\* the first day of the last segment of a moon of three segments
C24_Witness ==
    /\ SegmentDone
    /\ Len(res.phases) >= 1
    /\ PositiveAndComplete(cal.moons[1])
    /\ Len(cal.moons[1].phases) = 3
    /\ res.phases[1].phaseIndex = 2
    /\ res.phases[1].age = SegmentStartOf(cal.moons[1], 3)
    /\ cal.moons[1].phases[2].length > 1

\* the position of the segment reached j segments after segment k
SegmentAfter(moon, k, j) == ((k - 1 + j) % Len(moon.phases)) + 1

\* the days from the day of the record forward to the first day of a segment
\* named target: 0 in such a segment, else what is left of the current segment
\* and the segments between; NoNumber when no segment has the name
DaysToSegment(moon, r, target) ==
    LET n == Len(moon.phases)
        k0 == r.phaseIndex + 1
        pos == r.age - SegmentStartOf(moon, k0)
        hops == {j \in 0..(n - 1) :
                    ToLowerCase(moon.phases[SegmentAfter(moon, k0, j)].name) = target}
    IN  IF hops = {} THEN NoNumber
        ELSE LET j == CHOOSE h \in hops : \A g \in hops : h <= g
             IN  IF j = 0 THEN Number(0)
                 ELSE Number((moon.phases[k0].length - pos)
                             + SumOf([t \in 1..(j - 1) |->
                                         moon.phases[SegmentAfter(moon, k0, t)].length],
                                     1..(j - 1)))

\* C25: daysUntilPhase(target) is the distance walked forward from the current
\* segment and offset until a segment named target is reached: 0 when the
\* current segment is the target, otherwise the remaining days of the current
\* segment plus the lengths of the segments skipped.
C25_DaysUntilSegmentStart ==
    SegmentDone =>
        \A n \in 1..Len(cal.moons) :
            PositiveAndComplete(cal.moons[n]) =>
                /\ res.phases[n].daysUntilNew
                       = DaysToSegment(cal.moons[n], res.phases[n], "new moon")
                /\ res.phases[n].daysUntilFull
                       = DaysToSegment(cal.moons[n], res.phases[n], "full moon")

----------------------------------------------------------------------------
(* The segment model with any list of segments *)

\* the segments of a moon: 0..MaxSegments
MaxSegments == 3

\* a segment has a name and a length that may be 0 or negative
AnySegments ==
    {[name |-> n, length |-> l] :
        n \in {"New Moon", "Waxing Crescent", "Full Moon"}, l \in {-1, 0, 2}}

\* the first structure of MoonStructures: two months, no intercalary days
PlainStructure == [months |-> MonthsOf(<<2, 1>>), intercalary |-> <<>>]

SegmentCalendars ==
    {[months |-> PlainStructure.months, intercalary |-> PlainStructure.intercalary,
      moons |-> <<[name |-> "Ral", cycleLength |-> c,
                   firstNewMoon |-> [year |-> 1, month |-> 1, day |-> 1],
                   phases |-> ph]>>] :
        c \in {3, 4}, ph \in SeqsUpTo(AnySegments, MaxSegments)}

\* the days of the first cycle, as dates with a 0-based month
SegmentDates(calendar) ==
    {fromAbsoluteDay(calendar, a) : a \in 0..(calendar.moons[1].cycleLength - 1)}

SegmentRequests(calendar) ==
    {[op |-> "computeMoonPhase", date |-> d, moon |-> 1] : d \in SegmentDates(calendar)}
    \cup {[op |-> "daysUntilPhase", date |-> d, moon |-> 1, target |-> t] :
             d \in SegmentDates(calendar), t \in {"new moon", "full moon"}}

InitSegments ==
    /\ cal \in SegmentCalendars
    /\ now = NoDate
    /\ req \in SegmentRequests(cal)
    /\ res = Pending
    /\ pc = "call"

\* daysUntilPhase(target) as computeMoonPhase calls it for the moon and the
\* date, with the segment and the offset it starts from
CallDaysUntilPhase ==
    /\ pc = "call"
    /\ req.op = "daysUntilPhase"
    /\ LET moon == cal.moons[req.moon]
           at == LocateSegment(cal, req.date, moon)
           run == DaysUntilPhaseRun(moon.phases, moon.cycleLength, at.phaseIndex,
                                    at.posInSegment, req.target)
       IN  res' = [days |-> run.days, steps |-> run.steps, age |-> at.age,
                   phaseIndex |-> at.phaseIndex, posInSegment |-> at.posInSegment]
    /\ pc' = "done"
    /\ UNCHANGED <<cal, now, req>>

NextSegments == CallComputeMoonPhase \/ CallDaysUntilPhase

SpecSegments == InitSegments /\ [][NextSegments]_vars

----------------------------------------------------------------------------
(* Claims about any list of segments, checked under SpecSegments *)

DaysUntilDone == pc = "done" /\ req.op = "daysUntilPhase"

\* a segment of the moon has the name, whatever the case of the letters
HasSegmentNamed(moon, target) ==
    \E k \in 1..Len(moon.phases) : ToLowerCase(moon.phases[k].name) = target

\* C26: daysUntilPhase ends within cycleLength + segmentCount + 1 steps of
\* its loop and returns null when no segment has the target name, also when
\* some or all segments have a length of 0 or less.
C26_DaysUntilPhaseTerminates ==
    DaysUntilDone =>
        LET moon == cal.moons[req.moon]
        IN  /\ res.steps \in 0..(moon.cycleLength + Len(moon.phases) + 1)
            /\ res.days = NoNumber <=> ~HasSegmentNamed(moon, req.target)
            /\ HasSegmentNamed(moon, req.target) => res.steps <= Len(moon.phases)

\* the only segment with the target name is two segments ahead and no segment
\* has a positive length
C26_Witness ==
    /\ DaysUntilDone
    /\ Len(cal.moons[1].phases) = 3
    /\ \A k \in 1..3 : cal.moons[1].phases[k].length <= 0
    /\ res.steps = 3
    /\ res.days # NoNumber

\* every segment of the moon has a positive length; the sum may differ from
\* the cycle length
PositiveLengths(moon) ==
    /\ Len(moon.phases) >= 1
    /\ \A k \in 1..Len(moon.phases) : moon.phases[k].length > 0

\* a day count that is null or in [0, cycleLength]
NullOrWithinCycle(days, moon) ==
    days # NoNumber => days[1] \in 0..moon.cycleLength

\* C27: when the segment lengths do not add up to cycleLength, then for every
\* age in [0, cycleLength), also an age at or beyond the sum of the lengths,
\* the offset within the current segment is within the length of that segment
\* and daysUntilNew and daysUntilFull, when not null, are in [0, cycleLength].
C27_OffsetAndCountsWithinBounds ==
    /\ (DaysUntilDone /\ PositiveLengths(cal.moons[req.moon])) =>
           LET moon == cal.moons[req.moon]
           IN  /\ res.age \in 0..(moon.cycleLength - 1)
               /\ res.posInSegment \in 0..moon.phases[res.phaseIndex + 1].length
               /\ NullOrWithinCycle(res.days, moon)
    /\ (pc = "done" /\ req.op = "computeMoonPhase"
            /\ PositiveLengths(cal.moons[req.moon])) =>
           /\ NullOrWithinCycle(res.record.daysUntilNew, cal.moons[req.moon])
           /\ NullOrWithinCycle(res.record.daysUntilFull, cal.moons[req.moon])

----------------------------------------------------------------------------
(* The conjunction functions with calendars whose moons carry any names *)

MoonNames == {"Ral", "Guthay", "Kanth"}

\* two moons of cycles 5 and 7 under any two different names, and three
\* moons of which the last is the only one with a designated name
NamedMoonLists(st) ==
    {<<Moon(n[1], 5, r), Moon(n[2], 7, EarliestRef(st))>> :
        n \in {q \in MoonNames \X MoonNames : q[1] # q[2]},
        r \in {EarliestRef(st), LatestRef(st)}}
    \cup {<<Moon("Kanth", 5, EarliestRef(st)), Moon("Tyr", 7, EarliestRef(st)),
            Moon(n, 4, EarliestRef(st))>> : n \in {"Ral", "Guthay"}}

NamedCalendars ==
    UNION {{[months |-> st.months, intercalary |-> st.intercalary, moons |-> ms] :
               ms \in NamedMoonLists(st)} : st \in MoonStructures}

NamedRequests(calendar) ==
    {[op |-> "getConjunctions", from |-> f, to |-> t] :
        f \in EventDates(calendar), t \in EventDates(calendar)}
    \cup {[op |-> "getConjunctionInfo", date |-> d] : d \in EventDates(calendar)}

InitNamed ==
    /\ cal \in NamedCalendars
    /\ now = WireDate(fromAbsoluteDay(cal, 1))
    /\ req \in NamedRequests(cal)
    /\ res = Pending
    /\ pc = "call"

NextNamed ==
    \/ CallGetConjunctions
    \/ CallGetConjunctionInfo

SpecNamed == InitNamed /\ [][NextNamed]_vars

\* the positions of the two moons the conjunction is about: the moons named
\* 'Ral' and 'Guthay' when present, otherwise the first and second record
DesignatedPair(calendar) ==
    LET ms == RecordMoons(calendar)
        rals == {i \in 1..Len(ms) : ms[i].name = "Ral"}
        guthays == {i \in 1..Len(ms) : ms[i].name = "Guthay"}
    IN  IF rals # {} /\ guthays # {}
        THEN <<CHOOSE i \in rals : \A j \in rals : i <= j,
               CHOOSE i \in guthays : \A j \in guthays : i <= j>>
        ELSE <<1, 2>>

\* the separation of the designated pair on an absolute day is at most
\* tolDeg degrees
PairWithinTolerance(calendar, abs, tolDeg) ==
    LET ms == RecordMoons(calendar)
        r == ms[DesignatedPair(calendar)[1]]
        g == ms[DesignatedPair(calendar)[2]]
        den == r.cycleLength * g.cycleLength
        diff == 360 * Abs(AgeOn(calendar, r, abs) * g.cycleLength
                          - AgeOn(calendar, g, abs) * r.cycleLength)
        sep == IF diff > 180 * den THEN 360 * den - diff ELSE diff
    IN  sep <= tolDeg * den

\* C28: the two moons compared for a conjunction are always two distinct
\* moon records of the calendar, the moons named 'Ral' and 'Guthay' when
\* present and otherwise the first and second record: a day is reported
\* exactly when these two moons are within the tolerance, so in no calendar
\* with two or more moons is a moon compared with itself and a conjunction
\* of 0 degrees reported on every day.
C28_DistinctMoonsCompared ==
    /\ (pc = "done" /\ req.op = "getConjunctions") =>
          \A abs \in RangeLo..RangeHi :
              PairWithinTolerance(cal, abs, DefaultTolDeg)
                  <=> \E j \in 1..Len(res.matches) :
                          res.matches[j].date = DateOf(cal, abs)
    /\ (pc = "done" /\ req.op = "getConjunctionInfo") =>
          (PairWithinTolerance(cal, AbsOf(cal, req.date), DefaultTolDeg)
              <=> (res.info # Null))

----------------------------------------------------------------------------
(* The /eclipse command of the chatMessage hook *)

\* starts[] and run of the handler; starts[i] of the code is starts[i + 1] here
FallbackMeta(calendar) ==
    [starts |-> [i \in 1..Len(calendar.months) |-> Running(calendar, i - 1)],
     daysPerYear |-> Running(calendar, Len(calendar.months))]

\* const toAbs = (d) => { const doy = (starts[d.month]||0) + (d.day-1) + 1;
\*                        return (d.year-1)*daysPerYear + (doy-1); }
\* (toAbs of the /eclipse branch)
eclipseToAbs(calendar, d) ==
    LET meta == FallbackMeta(calendar)
        start == IF d.month \in 0..(Len(meta.starts) - 1)
                 THEN meta.starts[d.month + 1] ELSE 0
        doy == start + (d.day - 1) + 1
    IN  (d.year - 1) * meta.daysPerYear + (doy - 1)

RECURSIVE FallbackMonth(_, _, _)
\* for (let i = starts.length-1; i >= 0; i--) { if (doy0 >= starts[i]) { m = i; break; } }
FallbackMonth(starts, doy0, i) ==
    IF i < 0 THEN 0
    ELSE IF doy0 >= starts[i + 1] THEN i
    ELSE FallbackMonth(starts, doy0, i - 1)

\* const fromAbs = (abs) => { const year = Math.floor(abs/daysPerYear)+1;
\*                            let doy0 = abs % daysPerYear; ... }
\* (fromAbs of the /eclipse branch)
eclipseFromAbs(calendar, abs) ==
    LET meta == FallbackMeta(calendar)
        year == FloorDiv(abs, meta.daysPerYear) + 1
        doy0 == JsRem(abs, meta.daysPerYear)
        m == FallbackMonth(meta.starts, doy0, Len(meta.starts) - 1)
        day == (doy0 - meta.starts[m + 1]) + 1
    IN  [year |-> year, month |-> m, day |-> day]

RECURSIVE FallbackSegmentName(_, _, _, _)
\* for (const seg of ph) { const len = Number(seg?.length)||0;
\*   if (age < acc+len) return seg?.name||null; acc += len; } return null;
FallbackSegmentName(ph, age, i, acc) ==
    IF i > Len(ph) THEN NoName
    ELSE IF age < acc + ph[i].length THEN Name(ph[i].name)
    ELSE FallbackSegmentName(ph, age, i + 1, acc + ph[i].length)

\* function phaseName(m) of phasesFor(d): the name of the segment of moon m
\* on the absolute day d, NoName for a moon without a positive cycle length
\* and for an age that no segment holds
phaseName(calendar, d, m) ==
    LET cycle == m.cycleLength
    IN  IF cycle <= 0 THEN NoName
        ELSE LET ref == m.firstNewMoon
                 refAbs == eclipseToAbs(calendar, [year |-> ref.year,
                                                   month |-> ref.month - 1,
                                                   day |-> ref.day])
                 age == JsRem(JsRem(d - refAbs, cycle) + cycle, cycle)
             IN  FallbackSegmentName(m.phases, age, 1, 0)

\* return mns.map(m => phaseName(m)): one entry for every moon
phasesFor(calendar, d) ==
    [i \in 1..Len(calendar.moons) |-> phaseName(calendar, d, calendar.moons[i])]

\* p.length >= 2 && p.every(n => String(n||'').toLowerCase() === 'new moon')
IsNewBoth(p) ==
    /\ Len(p) >= 2
    /\ \A i \in 1..Len(p) : p[i] # NoName /\ ToLowerCase(p[i][1]) = "new moon"

RECURSIVE EclipseFallbackLoop(_, _, _, _, _)
\* for (let i = 0; i < maxScan; i++) { ... if (isNewBoth) { found = fromAbs(abs); break; } }
EclipseFallbackLoop(calendar, startAbs, step, i, maxScan) ==
    IF i >= maxScan THEN Null
    ELSE LET abs == startAbs + i * step
         IN  IF IsNewBoth(phasesFor(calendar, abs)) THEN eclipseFromAbs(calendar, abs)
             ELSE EclipseFallbackLoop(calendar, startAbs, step, i + 1, maxScan)

\* the /eclipse branch of the chatMessage hook; params is the text after the
\* command
eclipseFallback(calendar, current, params) ==
    IF calendar = NoCalendar THEN [content |-> "Active calendar not available."]
    ELSE IF current = NoDate THEN [content |-> "No current date available."]
    ELSE LET dir == IF params = "" THEN "next" ELSE params
             date0 == [year |-> current.year,
                       month |-> IF current.month - 1 > 0 THEN current.month - 1 ELSE 0,
                       day |-> current.day]
             startAbs == eclipseToAbs(calendar, date0)
             step == IF StartsWithPrev(dir) THEN -1 ELSE 1
             maxScan == FallbackMeta(calendar).daysPerYear * 10
             found == EclipseFallbackLoop(calendar, startAbs, step, 0, maxScan)
         IN  IF found = Null
             THEN [content |-> "No eclipse window found in scan range."]
             ELSE [content |-> "Eclipse window:", date |-> found]

----------------------------------------------------------------------------
(* The two /eclipse commands called on their own *)

\* a moon without a positive cycle length
DeadMoons(st) ==
    {[name |-> "Kanth", cycleLength |-> c, firstNewMoon |-> EarliestRef(st),
      phases |-> SegmentsOf(4)] : c \in {-1, 0}}

\* a moon whose only segment does not fill its cycle
ShortMoon(st) ==
    [name |-> "Ral", cycleLength |-> 4, firstNewMoon |-> EarliestRef(st),
     phases |-> <<[name |-> "New Moon", length |-> 1]>>]

\* one moon; two valid moons; two valid moons with a moon without a positive
\* cycle length before or after them; a moon with an incomplete segment list
CommandMoonLists(st) ==
    LET pairs == {<<Moon("Ral", p[1], r), Moon("Guthay", p[2], EarliestRef(st))>> :
                     p \in {<<4, 4>>, <<1, 2>>, <<5, 7>>},
                     r \in {EarliestRef(st), LatestRef(st)}}
    IN  {<<Moon("Ral", 4, EarliestRef(st))>>}
        \cup pairs
        \cup {<<d>> \o ms : d \in DeadMoons(st), ms \in pairs}
        \cup {ms \o <<d>> : d \in DeadMoons(st), ms \in pairs}
        \cup {<<ShortMoon(st), Moon("Guthay", 4, EarliestRef(st))>>}

CommandCalendars ==
    UNION {{[months |-> st.months, intercalary |-> st.intercalary, moons |-> ms] :
               ms \in CommandMoonLists(st)} : st \in MoonStructures}

CommandRequests ==
    {[op |-> o, parameters |-> p] :
        o \in {"/eclipse", "/eclipse hook"},
        p \in {"", "next", "prev", "previous"}}

\* the current date of the host is one of the first EventSpan days
InitCommand ==
    /\ cal \in CommandCalendars
    /\ now \in EventDates(cal)
    /\ req \in CommandRequests
    /\ res = Pending
    /\ pc = "call"

CallEclipseFallback ==
    /\ pc = "call"
    /\ req.op = "/eclipse hook"
    /\ res' = eclipseFallback(cal, now, req.parameters)
    /\ pc' = "done"
    /\ UNCHANGED <<cal, now, req>>

NextCommand ==
    \/ CallEclipseCommand
    \/ CallEclipseFallback

SpecCommand == InitCommand /\ [][NextCommand]_vars

\* moon m is in a segment named 'New Moon' on the absolute day
InNewMoonSegment(calendar, m, abs) ==
    \E k \in 1..Len(m.phases) :
        /\ m.phases[k].name = "New Moon"
        /\ SegmentStartOf(m, k) <= AgeOn(calendar, m, abs)
        /\ AgeOn(calendar, m, abs) < SegmentStartOf(m, k) + m.phases[k].length

\* C29: the two implementations of the /eclipse command, the Chat Commander
\* callback and the chatMessage hook, are equivalent: for the same calendar,
\* current date and direction they report the same eclipse-window date or
\* both report that none was found, also when the calendar has a moon with
\* cycleLength <= 0 alongside two or more valid moons, and the day they
\* report is one on which every valid moon is in its 'New Moon' segment.
C29_EclipseCommandsEquivalent ==
    /\ (pc = "done" /\ req.op = "/eclipse") =>
          res = eclipseFallback(cal, now, req.parameters)
    /\ (pc = "done" /\ req.op = "/eclipse hook") =>
          res = eclipseCommand(cal, now, req.parameters)
    /\ (pc = "done" /\ "date" \in DOMAIN res) =>
          \A i \in 1..Len(RecordMoons(cal)) :
              InNewMoonSegment(cal, RecordMoons(cal)[i],
                               toAbsoluteDay(cal, res.date))

----------------------------------------------------------------------------
(* The current date of getAthasMoonPhases, checked under SpecFraction *)

\* C30: when the date argument is omitted, the moon-phase query uses the
\* current date of the host with its 1-based month normalized exactly once:
\* getAthasMoonPhases() returns the same records as
\* getAthasMoonPhases(currentDate) and as api.getMoonPhases() for the same
\* current date.
C30_CurrentDateNormalizedOnce ==
    (AthasDone /\ req.date = NoDate /\ now # NoDate) =>
        /\ res.phases = getAthasMoonPhases(cal, now, now)
        /\ res.phases = getMoonPhases(cal, now, NoDate)

====
